---- MODULE Spec2Model ----
(***************************************************************************)
(* A model of the nanobanana MCP server: the four tool handlers            *)
(* (generate, edit, blend, status), the prompt optimizer, the output       *)
(* format reconciliation, and the file manager (image store, JSON ledger,  *)
(* cache retention sweep).                                                 *)
(*                                                                         *)
(* Text (prompts, MIME types) is modelled as sequences of one-character    *)
(* strings so that lower-casing, substring search and replacement are      *)
(* computed as the code computes them.  Image payloads are sequences of    *)
(* byte values.  Time is counted in seconds.                               *)
(***************************************************************************)
EXTENDS Integers, Sequences, FiniteSets, TLC

VARIABLES
    output_files,       \* files under <output_dir>: path -> [data, mtime]
    ledger,             \* contents of <output_dir>/metadata.json
    cache_files,        \* files under <cache_dir>: name -> [size, mtime]
    cache_index,        \* contents of <cache_dir>/cache_index.json
    translation_cache,  \* PromptOptimizer._translation_cache
    now,                \* wall clock, in seconds
    ticks,              \* number of clock advances so far
    ops,                \* number of calls so far
    call                \* observation of the last completed call

vars == <<output_files, ledger, cache_files, cache_index, translation_cache,
          now, ticks, ops, call>>

----------------------------------------------------------------------------
(* Bounds of the model *)

\* file manager calls explored per behaviour
MaxOps == 2
\* clock advances explored per behaviour
MaxTicks == 2
\* files an external writer puts in the cache area
MaxCacheFiles == 2
\* tool calls explored per behaviour
MaxCalls == 2
\* bytes of cache_index.json per entry
IndexEntryBytes == 100

----------------------------------------------------------------------------
(* Program constants and settings *)

MIN_PROMPT_LENGTH == 3
MAX_PROMPT_LENGTH == 2000
MAX_BATCH_SIZE == 4
\* hours
cache_expiry == 24
\* MB
max_cache_size == 1000
enable_cache == TRUE
\* timedelta(hours=...) in seconds
HourSeconds == 3600
\* 1024 * 1024
MB == 1048576

None == "None"

\* the Python values a caller passes for an argument: the type and the value
\* (a float is given by its tenths)
PyNone == [type |-> "NoneType", val |-> 0]
PyStr(s) == [type |-> "str", val |-> s]
PyBool(b) == [type |-> "bool", val |-> b]
PyInt(n) == [type |-> "int", val |-> n]
PyFloat(tenths) == [type |-> "float", val |-> tenths]
PyList(items) == [type |-> "list", val |-> items]

\* bool(v)
Truthy(v) ==
    CASE v.type = "NoneType" -> FALSE
      [] v.type = "bool" -> v.val
      [] v.type \in {"int", "float"} -> v.val # 0
      [] v.type \in {"str", "list"} -> v.val # <<>>

----------------------------------------------------------------------------
(* Text helpers: Python str operations on sequences of characters *)

UpperLetters == <<"A","B","C","D","E","F","G","H","I","J","K","L","M",
                  "N","O","P","Q","R","S","T","U","V","W","X","Y","Z">>
LowerLetters == <<"a","b","c","d","e","f","g","h","i","j","k","l","m",
                  "n","o","p","q","r","s","t","u","v","w","x","y","z">>

\* str.lower() on one character
LowerChar(c) ==
    IF \E i \in 1..26 : UpperLetters[i] = c
    THEN LowerLetters[CHOOSE i \in 1..26 : UpperLetters[i] = c]
    ELSE c

\* str.lower()
StrLower(s) == [i \in 1..Len(s) |-> LowerChar(s[i])]

\* s.startswith(p)
StartsWith(s, p) ==
    /\ Len(p) <= Len(s)
    /\ \A i \in 1..Len(p) : s[i] = p[i]

\* p in s
Contains(s, p) ==
    \E k \in 0..(Len(s) - Len(p)) :
        \A i \in 1..Len(p) : s[k + i] = p[i]

\* s.strip() for the blank character
\* number of leading characters of s that belong to cs
LeadingRun(s, cs) ==
    CHOOSE k \in 0..Len(s) :
        /\ \A i \in 1..k : s[i] \in cs
        /\ k = Len(s) \/ s[k + 1] \notin cs

\* number of trailing characters of s that belong to cs
TrailingRun(s, cs) ==
    CHOOSE k \in 0..Len(s) :
        /\ \A i \in (Len(s) - k + 1)..Len(s) : s[i] \in cs
        /\ k = Len(s) \/ s[Len(s) - k] \notin cs

Drop(s, n) == SubSeq(s, n + 1, Len(s))

\* offset of the first occurrence of p in s, or -1
Find(s, p) ==
    LET at == {k \in 0..(Len(s) - Len(p)) :
                  \A i \in 1..Len(p) : s[k + i] = p[i]}
    IN  IF at = {} THEN -1 ELSE CHOOSE k \in at : \A j \in at : k <= j

StripLeft(s) == Drop(s, LeadingRun(s, {" "}))

StripRight(s) == SubSeq(s, 1, Len(s) - TrailingRun(s, {" "}))

Strip(s) == StripRight(StripLeft(s))

\* s.replace(old, new): every non-overlapping occurrence, left to right
RECURSIVE StrReplace(_, _, _)
StrReplace(s, old, new) ==
    IF old = <<>> \/ Find(s, old) = -1 THEN s
    ELSE LET k == Find(s, old)
         IN  SubSeq(s, 1, k) \o new \o
             StrReplace(Drop(s, k + Len(old)), old, new)

----------------------------------------------------------------------------
(* constants.py: prompt optimisation tables.  Hangul syllables are written *)
(* as romanised one-character tokens "k:..".                               *)

PROHIBITED_KEYWORDS ==
    <<<<"n","s","f","w">>,<<"e","x","p","l","i","c","i","t">>,<<"a","d","u",
    "l","t">>,<<"v","i","o","l","e","n","c","e">>,<<"g","o","r","e">>,<<"h",
    "a","t","e">>,<<"d","i","s","c","r","i","m","i","n","a","t","i","o","n">>,
    <<"i","l","l","e","g","a","l">>,<<"h","a","r","m","f","u","l">>,<<"d",
    "a","n","g","e","r","o","u","s">>>>

QUALITY_KEYWORDS ==
    <<<<"h","i","g","h"," ","q","u","a","l","i","t","y">>,<<"d","e","t","a",
    "i","l","e","d">>,<<"s","h","a","r","p">>,<<"c","r","i","s","p">>,<<"p",
    "r","o","f","e","s","s","i","o","n","a","l">>,<<"p","h","o","t","o","r",
    "e","a","l","i","s","t","i","c">>,<<"u","l","t","r","a","-","d","e","t",
    "a","i","l","e","d">>,<<"m","a","s","t","e","r","p","i","e","c","e">>,<<"b",
    "e","s","t"," ","q","u","a","l","i","t","y">>>>

STYLE_PRESETS ==
    [photorealistic |-> <<"p","h","o","t","o","r","e","a","l","i","s","t","i","c",","," ",
        "p","r","o","f","e","s","s","i","o","n","a","l"," ","p","h","o","t",
        "o","g","r","a","p","h","y",","," ","h","i","g","h"," ","q","u","a",
        "l","i","t","y">>,
     digital_art |-> <<"d","i","g","i","t","a","l"," ","a","r","t",","," ","c","o","n",
        "c","e","p","t"," ","a","r","t",","," ","d","e","t","a","i","l","e",
        "d"," ","i","l","l","u","s","t","r","a","t","i","o","n">>,
     oil_painting |-> <<"o","i","l"," ","p","a","i","n","t","i","n","g",","," ","c","l",
        "a","s","s","i","c","a","l"," ","a","r","t",","," ","b","r","u","s",
        "h"," ","s","t","r","o","k","e","s">>,
     watercolor |-> <<"w","a","t","e","r","c","o","l","o","r"," ","p","a","i","n","t",
        "i","n","g",","," ","s","o","f","t"," ","c","o","l","o","r","s",",",
        " ","a","r","t","i","s","t","i","c">>,
     cartoon |-> <<"c","a","r","t","o","o","n"," ","s","t","y","l","e",","," ","a",
        "n","i","m","a","t","e","d",","," ","c","o","l","o","r","f","u","l",
        ","," ","s","t","y","l","i","z","e","d">>,
     anime |-> <<"a","n","i","m","e"," ","s","t","y","l","e",","," ","m","a","n",
        "g","a",","," ","j","a","p","a","n","e","s","e"," ","a","n","i","m",
        "a","t","i","o","n">>,
     sketch |-> <<"p","e","n","c","i","l"," ","s","k","e","t","c","h",","," ","b",
        "l","a","c","k"," ","a","n","d"," ","w","h","i","t","e",","," ","h",
        "a","n","d","-","d","r","a","w","n">>,
     vintage |-> <<"v","i","n","t","a","g","e"," ","s","t","y","l","e",","," ","r",
        "e","t","r","o",","," ","a","g","e","d",","," ","c","l","a","s","s",
        "i","c">>]

ASPECT_RATIOS ==
    [square |-> <<"1",":","1">>,
     landscape |-> <<"1","6",":","9">>,
     portrait |-> <<"9",":","1","6">>,
     widescreen |-> <<"2","1",":","9">>,
     cinema |-> <<"2",".","3","9",":","1">>,
     photo |-> <<"4",":","3">>,
     instagram |-> <<"1",":","1">>,
     story |-> <<"9",":","1","6">>,
     banner |-> <<"3",":","1">>]

korean_translations ==
    <<<<<<"k:go","k:yang","k:i">>,<<"c","a","t">>>>,
      <<<<"k:gang","k:a","k:ji">>,<<"d","o","g">>>>,
      <<<<"k:kkot">>,<<"f","l","o","w","e","r">>>>,
      <<<<"k:na","k:mu">>,<<"t","r","e","e">>>>,
      <<<<"k:ha","k:neul">>,<<"s","k","y">>>>,
      <<<<"k:ba","k:da">>,<<"o","c","e","a","n">>>>,
      <<<<"k:san">>,<<"m","o","u","n","t","a","i","n">>>>,
      <<<<"k:jip">>,<<"h","o","u","s","e">>>>,
      <<<<"k:ja","k:dong","k:cha">>,<<"c","a","r">>>>,
      <<<<"k:sa","k:ram">>,<<"p","e","r","s","o","n">>>>,
      <<<<"k:a","k:reum","k:da","k:un">>,<<"b","e","a","u","t","i","f","u",
        "l">>>>,
      <<<<"k:ye","k:ppeun">>,<<"p","r","e","t","t","y">>>>,
      <<<<"k:meot","k:jin">>,<<"c","o","o","l">>>>,
      <<<<"k:keun">>,<<"b","i","g">>>>,
      <<<<"k:jak","k:eun">>,<<"s","m","a","l","l">>>>>>

HangulChars ==
    {"k:go", "k:yang", "k:i", "k:gang", "k:a", "k:ji", "k:kkot", "k:na",
     "k:mu", "k:ha", "k:neul", "k:ba", "k:da", "k:san", "k:jip", "k:ja",
     "k:dong", "k:cha", "k:sa", "k:ram", "k:reum", "k:un", "k:ye",
     "k:ppeun", "k:meot", "k:jin", "k:keun", "k:jak", "k:eun"}

category_prefixes ==
    [generation |-> <<"G","e","n","e","r","a","t","e"," ","a","n"," ","i","m","a","g",
        "e"," ","o","f">>,
     editing |-> <<"E","d","i","t"," ","t","h","i","s"," ","i","m","a","g","e"," ",
        "t","o">>,
     blending |-> <<"B","l","e","n","d"," ","t","h","e","s","e"," ","i","m","a","g",
        "e","s"," ","t","o"," ","c","r","e","a","t","e">>,
     style_transfer |-> <<"A","p","p","l","y"," ","t","h","e"," ","s","t","y","l","e"," ",
        "o","f">>]

QualityHigh ==
    <<"h","i","g","h"," ","q","u","a","l","i","t","y",","," ","d","e","t",
    "a","i","l","e","d",","," ","p","r","o","f","e","s","s","i","o","n","a",
    "l">>

QualityMedium ==
    <<"g","o","o","d"," ","q","u","a","l","i","t","y",","," ","c","l","e",
    "a","r">>

QualityDefault ==
    <<"h","i","g","h"," ","q","u","a","l","i","t","y",","," ","d","e","t",
    "a","i","l","e","d">>

AspectRatioSuffix == <<" ","a","s","p","e","c","t"," ","r","a","t","i","o">>

AspectRatioWord == <<"a","s","p","e","c","t"," ","r","a","t","i","o">>

CommaSpace == <<","," ">>

ConsistencyKeywords ==
    <<<<"c","o","n","s","i","s","t","e","n","t"," ","s","t","y","l","e">>,<<"c",
    "o","h","e","r","e","n","t"," ","c","o","m","p","o","s","i","t","i","o",
    "n">>,<<"u","n","i","f","i","e","d"," ","l","i","g","h","t","i","n","g">>>>


\* Characters of the other scripts _detect_language looks for: one
\* representative of each character class (hiragana/katakana letters of the
\* class, CJK ideographs, lower-case Cyrillic).
JapaneseChars == {"j:hi"}
ChineseChars == {"z:mao"}
RussianChars == {"r:ka"}

TRANSLATION_RECOMMENDED == {"ko", "ja", "zh", "es", "fr", "de", "it", "pt", "ru"}

auto_translate == TRUE

E_PROMPT_TOO_LONG == "E201"
E_PROMPT_UNSAFE == "E202"
E_PROMPT_EMPTY == "E203"

----------------------------------------------------------------------------
(* More text helpers *)

\* s.rstrip(chars)
RStripChars(s, cs) == SubSeq(s, 1, Len(s) - TrailingRun(s, cs))

\* s.split(sep) for a non-empty separator
RECURSIVE SplitOn(_, _)
SplitOn(s, sep) ==
    IF Find(s, sep) = -1 THEN <<s>>
    ELSE LET k == Find(s, sep)
         IN  <<SubSeq(s, 1, k)>> \o SplitOn(Drop(s, k + Len(sep)), sep)

\* sep.join(parts)
RECURSIVE JoinWith(_, _)
JoinWith(parts, sep) ==
    IF parts = <<>> THEN <<>>
    ELSE IF Len(parts) = 1 THEN parts[1]
    ELSE parts[1] \o sep \o JoinWith(Tail(parts), sep)

\* [x for x in xs if Keep(x)] for a sequence xs
RECURSIVE SelectNotIn(_, _)
SelectNotIn(words, text) ==
    IF words = <<>> THEN <<>>
    ELSE IF ~Contains(text, StrLower(Head(words)))
         THEN <<Head(words)>> \o SelectNotIn(Tail(words), text)
         ELSE SelectNotIn(Tail(words), text)

----------------------------------------------------------------------------
(* utils/prompt_optimizer.py: PromptOptimizer *)

\* _validate_prompt: the error code it raises with, or None
validate_prompt(prompt) ==
    IF prompt = <<>> \/ Strip(prompt) = <<>> THEN E_PROMPT_EMPTY
    ELSE IF Len(prompt) < MIN_PROMPT_LENGTH THEN E_PROMPT_EMPTY
    ELSE IF Len(prompt) > MAX_PROMPT_LENGTH THEN E_PROMPT_TOO_LONG
    ELSE None

\* _check_safety: TRUE iff it raises PromptOptimizerError(E202)
check_safety(prompt) ==
    LET prompt_lower == StrLower(prompt)
    IN  \E i \in 1..Len(PROHIBITED_KEYWORDS) :
            Contains(prompt_lower, PROHIBITED_KEYWORDS[i])

\* _detect_language
detect_language(text) ==
    IF \E i \in 1..Len(text) : text[i] \in HangulChars THEN "ko"
    ELSE IF \E i \in 1..Len(text) : text[i] \in JapaneseChars THEN "ja"
    ELSE IF \E i \in 1..Len(text) : text[i] \in ChineseChars THEN "zh"
    ELSE IF \E i \in 1..Len(text) : text[i] \in RussianChars THEN "ru"
    ELSE "en"

\* _simple_translate: the dictionary entries are applied in order
RECURSIVE ApplyTranslations(_, _)
ApplyTranslations(text, i) ==
    IF i > Len(korean_translations) THEN text
    ELSE ApplyTranslations(
             StrReplace(text, korean_translations[i][1], korean_translations[i][2]),
             i + 1)

simple_translate(text, source_lang) ==
    IF source_lang = "ko" THEN ApplyTranslations(text, 1) ELSE text

\* a translation whose cache holds the prompts as they were given
translate_if_needed_stale(prompt, cache) ==
    LET detected_lang == detect_language(prompt)
    IN  IF detected_lang = "en" THEN [text |-> prompt, cache |-> cache]
        ELSE IF detected_lang \notin TRANSLATION_RECOMMENDED
             THEN [text |-> prompt, cache |-> cache]
        ELSE IF prompt \in DOMAIN cache
             THEN [text |-> prompt, cache |-> cache]
        ELSE LET translated == simple_translate(prompt, detected_lang)
             IN  [text |-> translated,
                  cache |-> [p \in DOMAIN cache \cup {prompt} |->
                                IF p = prompt THEN translated ELSE cache[p]]]

\* _translate_if_needed: the text it returns and the cache it leaves
translate_if_needed(prompt, cache) ==
    LET detected_lang == detect_language(prompt)
    IN  IF detected_lang = "en" THEN [text |-> prompt, cache |-> cache]
        ELSE IF detected_lang \notin TRANSLATION_RECOMMENDED
             THEN [text |-> prompt, cache |-> cache]
        ELSE IF prompt \in DOMAIN cache
             THEN [text |-> cache[prompt], cache |-> cache]
        ELSE LET translated == simple_translate(prompt, detected_lang)
             IN  [text |-> translated,
                  cache |-> [p \in DOMAIN cache \cup {prompt} |->
                                IF p = prompt THEN translated ELSE cache[p]]]

\* _apply_category_optimization
apply_category_optimization(prompt, category) ==
    LET prompt_lower == StrLower(prompt)
        has_prefix == \E c \in DOMAIN category_prefixes :
                          StartsWith(prompt_lower, StrLower(category_prefixes[c]))
    IN  IF ~has_prefix /\ category \in DOMAIN category_prefixes
        THEN category_prefixes[category] \o <<" ">> \o prompt
        ELSE prompt

\* _apply_style
apply_style(prompt, style) ==
    IF style \in DOMAIN STYLE_PRESETS
    THEN LET style_words == SplitOn(StrLower(STYLE_PRESETS[style]), CommaSpace)
             missing_words == SelectNotIn(style_words, StrLower(prompt))
         IN  IF missing_words # <<>>
             THEN prompt \o CommaSpace \o JoinWith(missing_words, CommaSpace)
             ELSE prompt
    ELSE prompt

\* _enhance_quality
enhance_quality(prompt, quality_level) ==
    LET prompt_lower == StrLower(prompt)
        has_quality == \E i \in 1..Len(QUALITY_KEYWORDS) :
                           Contains(prompt_lower, QUALITY_KEYWORDS[i])
        quality_additions ==
            IF quality_level = "high" THEN QualityHigh
            ELSE IF quality_level = "medium" THEN QualityMedium
            ELSE QualityDefault
    IN  IF ~has_quality THEN prompt \o CommaSpace \o quality_additions
        ELSE prompt

\* _add_aspect_ratio
add_aspect_ratio(prompt, aspect_ratio) ==
    IF /\ ~Contains(StrLower(prompt), AspectRatioWord)
       /\ ~Contains(StrLower(prompt), <<"r","a","t","i","o">>)
    THEN LET ratio_value ==
                 IF \E n \in DOMAIN ASPECT_RATIOS : aspect_ratio = n
                 THEN ASPECT_RATIOS[aspect_ratio]
                 ELSE aspect_ratio
         IN  prompt \o CommaSpace \o ratio_value \o AspectRatioSuffix
    ELSE prompt

\* _add_keywords
add_keywords(prompt, keywords) ==
    LET new_keywords == SelectNotIn(keywords, StrLower(prompt))
    IN  IF new_keywords # <<>>
        THEN prompt \o CommaSpace \o JoinWith(new_keywords, CommaSpace)
        ELSE prompt

\* re.sub(r'\s+', ' ', s): runs of blanks become one blank
RECURSIVE CollapseBlanks(_)
CollapseBlanks(s) ==
    IF Find(s, <<" ">>) = -1 THEN s
    ELSE LET k == Find(s, <<" ">>)
             rest == Drop(s, k)
         IN  SubSeq(s, 1, k) \o <<" ">> \o
             CollapseBlanks(Drop(rest, LeadingRun(rest, {" "})))

\* re.sub(r',\s*,+', ',', s)
RECURSIVE CollapseCommas(_)
CollapseCommas(s) ==
    IF Find(s, <<",">>) = -1 THEN s
    ELSE LET k == Find(s, <<",">>)
             rest == Drop(s, k + 1)
             afterBlanks == Drop(rest, LeadingRun(rest, {" "}))
             commas == LeadingRun(afterBlanks, {","})
         IN  SubSeq(s, 1, k + 1) \o
             CollapseCommas(IF commas >= 1 THEN Drop(afterBlanks, commas)
                            ELSE rest)

\* re.sub(r',\s*', ', ', s)
RECURSIVE SpaceAfterCommas(_)
SpaceAfterCommas(s) ==
    IF Find(s, <<",">>) = -1 THEN s
    ELSE LET k == Find(s, <<",">>)
             rest == Drop(s, k + 1)
         IN  SubSeq(s, 1, k) \o CommaSpace \o
             SpaceAfterCommas(Drop(rest, LeadingRun(rest, {" "})))

\* the de-duplication loop of _optimize_structure
RECURSIVE UniqueWords(_, _)
UniqueWords(words, seen) ==
    IF words = <<>> THEN <<>>
    ELSE LET word == Strip(Head(words))
             word_lower == StrLower(word)
         IN  IF word_lower \notin seen /\ word # <<>>
             THEN <<word>> \o UniqueWords(Tail(words), seen \cup {word_lower})
             ELSE UniqueWords(Tail(words), seen)

\* a structure step that keeps repeated keywords
optimize_structure_keep(prompt) ==
    RStripChars(SpaceAfterCommas(CollapseCommas(CollapseBlanks(Strip(prompt)))),
                {",", " "})

\* _optimize_structure
optimize_structure(prompt) ==
    LET p1 == CollapseBlanks(Strip(prompt))
        p2 == CollapseCommas(p1)
        p3 == SpaceAfterCommas(p2)
        p4 == RStripChars(p3, {",", " "})
        words == SplitOn(p4, <<",">>)
    IN  JoinWith(UniqueWords(words, {}), CommaSpace)

\* _validate_final_prompt: the truncation is assigned to the local name
\* only, so the caller's string is what it was
validate_final_prompt(prompt) == prompt

\* optimize_prompt: [raised, code, text, cache]
optimize_prompt(prompt, category, aspect_ratio, style, quality_level, additional_keywords, cache) ==
    LET invalid == validate_prompt(prompt)
        Styled(p) == IF style # None THEN apply_style(p, style) ELSE p
        Ratio(p) == IF aspect_ratio # None
                    THEN add_aspect_ratio(p, aspect_ratio) ELSE p
        Keywords(p) == IF additional_keywords # <<>>
                       THEN add_keywords(p, additional_keywords) ELSE p
        \* steps 4 to 10
        Steps(p) ==
            validate_final_prompt(optimize_structure(Keywords(Ratio(
                enhance_quality(
                    Styled(apply_category_optimization(p, category)),
                    quality_level)))))
        \* steps 3 to 10, after the translation tr
        Translated(tr) ==
            IF check_safety(tr.text)
            THEN [raised |-> TRUE, code |-> E_PROMPT_UNSAFE, text |-> <<>>,
                  cache |-> tr.cache]
            ELSE [raised |-> FALSE, code |-> None, text |-> Steps(tr.text),
                  cache |-> tr.cache]
    IN  IF invalid # None
        THEN [raised |-> TRUE, code |-> invalid, text |-> <<>>, cache |-> cache]
        ELSE Translated(IF auto_translate
                        THEN translate_if_needed(prompt, cache)
                        ELSE [text |-> prompt, cache |-> cache])

----------------------------------------------------------------------------
(* utils/image_handler.py: ImageHandler.  Bytes and the characters of      *)
(* base64 text are numbers (byte values, ASCII codes).                     *)

Blank == {32, 9, 10, 13}

\* bytes.decode('utf-8') succeeds
RECURSIVE Utf8Decodable(_)
Utf8Decodable(b) ==
    IF b = <<>> THEN TRUE
    ELSE LET need == IF b[1] < 128 THEN 0
                     ELSE IF b[1] \in 194..223 THEN 1
                     ELSE IF b[1] \in 224..239 THEN 2
                     ELSE IF b[1] \in 240..244 THEN 3
                     ELSE -1
         IN  /\ need >= 0
             /\ Len(b) >= 1 + need
             /\ \A i \in 2..(1 + need) : b[i] \in 128..191
             /\ Utf8Decodable(Drop(b, 1 + need))

\* value of a character of the base64 alphabet, or -1
B64Value(c) ==
    IF c \in 65..90 THEN c - 65
    ELSE IF c \in 97..122 THEN c - 71
    ELSE IF c \in 48..57 THEN c + 4
    ELSE IF c = 43 THEN 62
    ELSE IF c = 47 THEN 63
    ELSE -1

\* base64.b64decode (binascii.a2b_base64, not strict): characters outside
\* the alphabet are skipped, a complete run of padding ends the input, an
\* incomplete last group is an error.  [raised, bytes]
RECURSIVE A2bBase64(_, _, _, _, _)
A2bBase64(text, quad_pos, leftchar, pads, out) ==
    IF text = <<>>
    THEN [raised |-> quad_pos # 0, bytes |-> out]
    ELSE LET c == Head(text)
             v == B64Value(c)
         IN  IF c = 61
             THEN IF quad_pos >= 2 /\ quad_pos + pads + 1 >= 4
                  THEN [raised |-> FALSE, bytes |-> out]
                  ELSE A2bBase64(Tail(text), quad_pos, leftchar,
                                 IF quad_pos >= 2 THEN pads + 1 ELSE pads, out)
             ELSE IF v = -1
             THEN A2bBase64(Tail(text), quad_pos, leftchar, pads, out)
             ELSE IF quad_pos = 0
             THEN A2bBase64(Tail(text), 1, v, 0, out)
             ELSE IF quad_pos = 1
             THEN A2bBase64(Tail(text), 2, v % 16, 0,
                            Append(out, leftchar * 4 + v \div 16))
             ELSE IF quad_pos = 2
             THEN A2bBase64(Tail(text), 3, v % 4, 0,
                            Append(out, leftchar * 16 + v \div 4))
             ELSE A2bBase64(Tail(text), 0, 0, 0,
                            Append(out, leftchar * 64 + v))

\* base64_to_bytes: x is [type, val]; [raised, bytes]
base64_to_bytes(x) ==
    IF x.type = "bytes" /\ ~Utf8Decodable(x.val)
    THEN [raised |-> FALSE, bytes |-> x.val]
    ELSE IF x.type \notin {"bytes", "str"}
    THEN [raised |-> TRUE, bytes |-> <<>>]
    ELSE LET stripped ==
                 SubSeq(x.val, LeadingRun(x.val, Blank) + 1,
                        Len(x.val) - TrailingRun(x.val, Blank))
             clean_string ==
                 [i \in 1..Len(stripped) |->
                     IF stripped[i] = 45 THEN 43
                     ELSE IF stripped[i] = 95 THEN 47
                     ELSE stripped[i]]
             padding_needed == Len(clean_string) % 4
             padded ==
                 IF padding_needed # 0
                 THEN clean_string \o [i \in 1..(4 - padding_needed) |-> 61]
                 ELSE clean_string
         IN  A2bBase64(padded, 0, 0, 0, <<>>)

PNG_SIGNATURE == <<137, 80, 78, 71, 13, 10, 26, 10>>
JPEG_SIGNATURE == <<255, 216, 255>>
RIFF_SIGNATURE == <<82, 73, 70, 70>>
WEBP_TAG == <<87, 69, 66, 80>>
GIF_SIGNATURE == <<71, 73, 70, 56>>
BMP_SIGNATURE == <<66, 77>>

FmtPng == <<"p","n","g">>
FmtJpeg == <<"j","p","e","g">>
FmtJpg == <<"j","p","g">>
FmtWebp == <<"w","e","b","p">>
FmtGif == <<"g","i","f">>

\* validate_image_data: detected_format, <<>> for None
detected_format(data) ==
    IF StartsWith(data, PNG_SIGNATURE) THEN FmtPng
    ELSE IF StartsWith(data, JPEG_SIGNATURE) THEN FmtJpeg
    ELSE IF StartsWith(data, RIFF_SIGNATURE)
         THEN IF Len(data) > 12 /\ SubSeq(data, 9, 12) # WEBP_TAG
              THEN <<>> ELSE FmtWebp
    ELSE IF StartsWith(data, GIF_SIGNATURE) THEN FmtGif
    ELSE IF StartsWith(data, BMP_SIGNATURE) THEN <<"b","m","p">>
    ELSE <<>>

SUPPORTED_OUTPUT_FORMATS == {FmtPng, FmtJpeg, FmtWebp}

\* the bytes Pillow writes when it re-encodes an image in a format
Reencoded(data, format) ==
    (IF format = FmtPng THEN PNG_SIGNATURE
     ELSE IF format = FmtJpeg THEN JPEG_SIGNATURE
     ELSE RIFF_SIGNATURE \o <<0, 0, 0, 0>> \o WEBP_TAG) \o <<Len(data)>>

\* save_bytes_as_image(process_with_pillow=True): [raised, data]
save_bytes_as_image(image_bytes, format, pillow_opens) ==
    IF pillow_opens /\ StrLower(format) \in SUPPORTED_OUTPUT_FORMATS
    THEN [raised |-> FALSE, data |-> Reencoded(image_bytes, StrLower(format))]
    ELSE [raised |-> TRUE, data |-> <<>>]

\* actual_mime_type.split('/')[-1].lower().replace('jpg', 'jpeg')
FormatOfMime(mime) ==
    LET parts == SplitOn(mime, <<"/">>)
    IN  StrReplace(StrLower(parts[Len(parts)]), FmtJpg, FmtJpeg)

----------------------------------------------------------------------------
(* utils/file_manager.py: FileManager *)

\* hashlib.sha256(image_data).hexdigest(): a function of the bytes, taken
\* to be collision-free
Sha256(data) == <<"sha256", data>>

\* hashlib.md5(prompt.encode()).hexdigest()[:8]
Md5Hex8(text) == <<"md5", text>>

\* {**base, **over}
Merge(base, over) ==
    [k \in DOMAIN base \cup DOMAIN over |->
        IF k \in DOMAIN over THEN over[k] ELSE base[k]]

\* what json.dump can write: bytes values (EXIF blobs) raise TypeError
JsonSerializable(md) ==
    /\ "exif" \in DOMAIN md => md["exif"] # "bytes"
    /\ "original_image_info" \in DOMAIN md =>
           md["original_image_info"].exif # "bytes"

\* generate_filename: nanobanana_<operation>_<timestamp>_<hash>.<extension>;
\* the timestamp has a resolution of one second
generate_filename(operation_type, prompt, extension, t) ==
    [operation |-> operation_type,
     timestamp |-> t,
     hash |-> IF prompt # <<>> THEN Md5Hex8(prompt) ELSE <<>>,
     extension |-> extension]

\* output_dir / operation_type / filename
FilePath(operation_type, filename) == <<operation_type, filename>>

\* the disk as the file manager sees it
Disk == [output |-> output_files, ledger |-> ledger,
         cache |-> cache_files, index |-> cache_index]

IndexFile == "cache_index.json"

IndexSize(content) ==
    IF content.state = "ok"
    THEN IndexEntryBytes * (1 + Cardinality(content.files))
    ELSE IndexEntryBytes

\* a ledger write that does not read the records the file holds
save_metadata_overwrite(led, metadata) ==
    IF led.state = "corrupt" THEN led
    ELSE IF ~JsonSerializable(metadata)
         THEN [state |-> "corrupt", images |-> <<>>]
         ELSE [state |-> "ok", images |-> <<metadata>>]

\* _save_metadata: every exception is logged and swallowed; the function
\* is synchronous, so no other task runs between its read and its write
save_metadata(led, metadata) ==
    IF led.state = "corrupt" THEN led
    ELSE IF ~JsonSerializable(metadata)
         THEN [state |-> "corrupt", images |-> <<>>]
         ELSE [state |-> "ok", images |-> Append(led.images, metadata)]

\* _update_cache_index: every exception is logged and swallowed
update_cache_index(d, file_path, metadata, t) ==
    IF d.index.state = "corrupt" THEN d
    ELSE LET content ==
                 IF JsonSerializable(metadata)
                 THEN [state |-> "ok",
                       files |-> d.index.files \cup {file_path}]
                 ELSE [state |-> "corrupt", files |-> {}]
         IN  [d EXCEPT !.index = content,
                       !.cache = [n \in DOMAIN d.cache \cup {IndexFile} |->
                                     IF n = IndexFile
                                     THEN [size |-> IndexSize(content),
                                           mtime |-> t]
                                     ELSE d.cache[n]]]

\* outcomes of writing the image file
WriteOutcomes == {"ok", "open_fail", "write_fail"}

\* save_image_with_metadata: [raised, disk, result]
save_image_with_metadata(d, image_data, operation_type, metadata, prompt, output_format, t, io) ==
    LET filename == generate_filename(operation_type, prompt, output_format, t)
        file_path == FilePath(operation_type, filename)
        written(data) ==
            [p \in DOMAIN d.output \cup {file_path} |->
                IF p = file_path THEN [data |-> data, mtime |-> t]
                ELSE d.output[p]]
        file_metadata ==
            Merge([filename |-> filename,
                   filepath |-> file_path,
                   operation_type |-> operation_type,
                   created_at |-> t,
                   file_size |-> Len(image_data),
                   format |-> output_format,
                   prompt |-> prompt,
                   hash |-> Sha256(image_data)],
                  metadata)
        d1 == [d EXCEPT !.output = written(image_data)]
        d2 == [d1 EXCEPT !.ledger = save_metadata(d1.ledger, file_metadata)]
        d3 == IF enable_cache
              THEN update_cache_index(d2, file_path, file_metadata, t)
              ELSE d2
    IN  IF io = "open_fail"
        THEN [raised |-> TRUE, disk |-> d, result |-> <<>>]
        ELSE IF io = "write_fail"
        THEN [raised |-> TRUE,
              disk |-> [d EXCEPT !.output = written(<<>>)],
              result |-> <<>>]
        ELSE [raised |-> FALSE, disk |-> d3,
              result |-> [success |-> TRUE, filepath |-> file_path,
                          filename |-> filename, metadata |-> file_metadata]]

CreatedAt(img) == IF "created_at" \in DOMAIN img THEN img["created_at"] ELSE 0

\* images.sort(key=created_at, reverse=True): stable, most recent first
RECURSIVE InsertDesc(_, _)
InsertDesc(sorted, x) ==
    IF sorted = <<>> THEN <<x>>
    ELSE IF CreatedAt(Head(sorted)) >= CreatedAt(x)
         THEN <<Head(sorted)>> \o InsertDesc(Tail(sorted), x)
         ELSE <<x>> \o sorted

RECURSIVE SortDesc(_)
SortDesc(xs) ==
    IF xs = <<>> THEN <<>>
    ELSE InsertDesc(SortDesc(SubSeq(xs, 1, Len(xs) - 1)), xs[Len(xs)])

\* get_image_history
get_image_history(led, limit, operation_type) ==
    IF led.state # "ok" THEN <<>>
    ELSE LET filtered ==
                 IF operation_type # None
                 THEN SelectSeq(led.images,
                          LAMBDA img : "operation_type" \in DOMAIN img
                                       /\ img["operation_type"] = operation_type)
                 ELSE led.images
             ordered == SortDesc(filtered)
             \* images[:limit]
             stop == IF limit.val >= 0 THEN limit.val
                     ELSE Len(ordered) + limit.val
         IN  IF Truthy(limit)
             THEN SubSeq(ordered, 1, IF stop < Len(ordered) THEN stop
                                     ELSE Len(ordered))
             ELSE ordered

\* str.split(): the set of blank-separated words
Words(text) == {w \in {SplitOn(text, <<" ">>)[i] :
                          i \in 1..Len(SplitOn(text, <<" ">>))} : w # <<>>}

\* _calculate_prompt_similarity >= 0.8, as a comparison of integers
SimilarEnough(prompt1, prompt2) ==
    LET words1 == Words(prompt1)
        words2 == Words(prompt2)
    IN  /\ words1 # {} /\ words2 # {}
        /\ 5 * Cardinality(words1 \cap words2)
               >= 4 * Cardinality(words1 \cup words2)

\* find_images_by_prompt: the matching records, most recent first among
\* records of equal similarity
find_images_by_prompt(led, prompt) ==
    SelectSeq(get_image_history(led, PyNone, None),
              LAMBDA img : /\ img["prompt"] # <<>>
                           /\ SimilarEnough(StrLower(prompt),
                                            StrLower(img["prompt"])))

\* _get_cache_stats: total_size
TotalSize(cache) ==
    LET RECURSIVE Sum(_)
        Sum(names) ==
            IF names = {} THEN 0
            ELSE LET n == CHOOSE x \in names : TRUE
                 IN  cache[n].size + Sum(names \ {n})
    IN  Sum(DOMAIN cache)

\* the files modified after the cutoff
find_young_cache_files(cache, t) ==
    LET cutoff_time == t - cache_expiry * HourSeconds
    IN  {n \in DOMAIN cache : cache[n].mtime > cutoff_time}

\* _find_expired_cache_files
find_expired_cache_files(cache, t) ==
    LET cutoff_time == t - cache_expiry * HourSeconds
    IN  {n \in DOMAIN cache : cache[n].mtime < cutoff_time}

\* _get_oldest_cache_files: oldest first until target_size is covered;
\* at least one file is selected when there is any
RECURSIVE TakeOldest(_, _, _)
TakeOldest(cache, names, target_size) ==
    IF names = {} THEN {}
    ELSE LET n == CHOOSE x \in names :
                      \A y \in names : cache[x].mtime <= cache[y].mtime
         IN  IF cache[n].size >= target_size THEN {n}
             ELSE {n} \cup TakeOldest(cache, names \ {n},
                                      target_size - cache[n].size)

get_oldest_cache_files(cache, target_size) ==
    TakeOldest(cache, DOMAIN cache, target_size)

Restrict(f, keep) == [k \in keep |-> f[k]]

\* _rebuild_cache_index
rebuild_cache_index(cache, t) ==
    LET content == [state |-> "ok", files |-> DOMAIN cache]
    IN  [index |-> content,
         cache |-> [n \in DOMAIN cache \cup {IndexFile} |->
                       IF n = IndexFile
                       THEN [size |-> IndexSize(content), mtime |-> t]
                       ELSE cache[n]]]

\* manage_cache: [disk, expired, old_files, current_size]
manage_cache(d, t) ==
    LET total_size == TotalSize(d.cache)
        expired_files == find_expired_cache_files(d.cache, t)
        cache1 == Restrict(d.cache, DOMAIN d.cache \ expired_files)
        freed_space == total_size - TotalSize(cache1)
        limit == max_cache_size * MB
        current_size == total_size - freed_space
        old_files == IF current_size > limit
                     THEN get_oldest_cache_files(cache1, current_size - limit)
                     ELSE {}
        cache2 == Restrict(cache1, DOMAIN cache1 \ old_files)
        rebuilt == rebuild_cache_index(cache2, t)
    IN  IF ~enable_cache
        THEN [disk |-> d, expired |-> {}, old_files |-> {},
              current_size |-> total_size, status |-> "disabled"]
        ELSE [disk |-> [d EXCEPT !.cache = rebuilt.cache,
                                 !.index = rebuilt.index],
              expired |-> expired_files, old_files |-> old_files,
              current_size |-> current_size, status |-> "completed"]

----------------------------------------------------------------------------
(* models/schemas.py *)

ImageFormatValues == {FmtPng, FmtJpeg, FmtWebp}

DecimalDigits == <<"0", "1", "2", "3", "4", "5", "6", "7", "8", "9">>

\* the number a sequence of decimal digits writes
RECURSIVE DigitsValue(_, _)
DigitsValue(digits, acc) ==
    IF digits = <<>> THEN acc
    ELSE DigitsValue(Tail(digits),
             10 * acc + (CHOOSE n \in 0..9 : DecimalDigits[n + 1] = Head(digits)))

\* int(text): an optional sign and decimal digits between blanks (digit
\* group underscores are not modelled); [raised, value]
int_of_str(text) ==
    LET Parsed(negative, digits) ==
            IF digits = <<>>
               \/ \E i \in 1..Len(digits) :
                      \A n \in 1..10 : DecimalDigits[n] # digits[i]
            THEN [raised |-> TRUE, value |-> 0]
            ELSE [raised |-> FALSE,
                  value |-> IF negative THEN 0 - DigitsValue(digits, 0)
                            ELSE DigitsValue(digits, 0)]
        Signed(t) ==
            IF t # <<>> /\ Head(t) \in {"+", "-"}
            THEN Parsed(Head(t) = "-", Tail(t))
            ELSE Parsed(FALSE, t)
    IN  Signed(Strip(text))

\* a validator that gives the default for every text
validate_candidate_count_default(v) ==
    CASE v.type \in {"NoneType", "str"} -> [raised |-> FALSE, value |-> 1]
      [] v.type = "int" -> [raised |-> FALSE, value |-> v.val]
      [] OTHER -> [raised |-> TRUE, value |-> 0]

\* GenerateImageRequest.validate_candidate_count (mode 'before'):
\* [raised, value]
validate_candidate_count(v) ==
    CASE v.type = "NoneType" -> [raised |-> FALSE, value |-> 1]
      [] v.type = "str" -> int_of_str(Strip(v.val))
      [] v.type = "int" -> [raised |-> FALSE, value |-> v.val]
      [] v.type = "bool" ->
            [raised |-> FALSE, value |-> IF v.val THEN 1 ELSE 0]
      [] OTHER -> [raised |-> TRUE, value |-> 0]

\* the boolean words of the validators
TrueWords == {<<"t","r","u","e">>, <<"1">>, <<"y","e","s">>, <<"o","n">>}
FalseWords == {<<"f","a","l","s","e">>, <<"0">>, <<"n","o">>, <<"o","f","f">>}

\* a validator that reads every text but "false" as true
validate_bool_option_lenient(v) ==
    CASE v.type = "NoneType" -> [raised |-> FALSE, value |-> TRUE]
      [] v.type = "str" ->
            [raised |-> FALSE,
             value |-> StrLower(Strip(v.val)) # <<"f","a","l","s","e">>]
      [] v.type = "bool" -> [raised |-> FALSE, value |-> v.val]
      [] v.type \in {"int", "float"} -> [raised |-> FALSE, value |-> v.val # 0]
      [] OTHER -> [raised |-> TRUE, value |-> FALSE]

\* validate_optimize_prompt of GenerateImageRequest, EditImageRequest and
\* BlendImagesRequest and validate_maintain_consistency of
\* BlendImagesRequest (mode 'before'), four copies of one text:
\* [raised, value]
validate_bool_option(v) ==
    CASE v.type = "NoneType" -> [raised |-> FALSE, value |-> TRUE]
      [] v.type = "str" ->
            IF StrLower(Strip(v.val)) \in TrueWords
            THEN [raised |-> FALSE, value |-> TRUE]
            ELSE IF StrLower(Strip(v.val)) \in FalseWords
            THEN [raised |-> FALSE, value |-> FALSE]
            ELSE [raised |-> TRUE, value |-> FALSE]
      [] v.type = "bool" -> [raised |-> FALSE, value |-> v.val]
      [] v.type \in {"int", "float"} -> [raised |-> FALSE, value |-> v.val # 0]
      [] OTHER -> [raised |-> TRUE, value |-> FALSE]
StylePresetValues == DOMAIN STYLE_PRESETS
QualityLevelValues == {"auto", "low", "medium", "high"}

\* a failure response without the error object
create_error_response_bare(message, code) ==
    [success |-> FALSE, message |-> message]

\* create_error_response(message, code).dict()
create_error_response(message, code) ==
    [success |-> FALSE,
     message |-> message,
     error |-> [code |-> code, message |-> message]]

\* GenerateImageRequest(**request_data):
\* [ok, prompt, candidate_count, optimize_prompt]
GenerateImageRequest(prompt, style, quality, output_format, candidate_count, optimize) ==
    [ok |-> /\ Len(prompt) >= MIN_PROMPT_LENGTH
            /\ Len(prompt) <= MAX_PROMPT_LENGTH
            /\ Strip(prompt) # <<>>
            /\ style \in StylePresetValues \cup {None}
            /\ quality \in QualityLevelValues \cup {None}
            /\ output_format \in ImageFormatValues
            /\ ~validate_candidate_count(candidate_count).raised
            /\ validate_candidate_count(candidate_count).value
                   \in 1..MAX_BATCH_SIZE
            /\ ~validate_bool_option(optimize).raised,
     prompt |-> Strip(prompt),
     candidate_count |-> validate_candidate_count(candidate_count).value,
     optimize_prompt |-> validate_bool_option(optimize).value]

\* EditImageRequest(**request_data): [ok, prompt, optimize_prompt]
EditImageRequest(image, edit_prompt, output_format, quality, optimize) ==
    [ok |-> /\ image.exists
            /\ Len(edit_prompt) >= MIN_PROMPT_LENGTH
            /\ Len(edit_prompt) <= MAX_PROMPT_LENGTH
            /\ output_format \in ImageFormatValues
            /\ quality \in QualityLevelValues \cup {None}
            /\ ~validate_bool_option(optimize).raised,
     prompt |-> edit_prompt,
     optimize_prompt |-> validate_bool_option(optimize).value]

MinBlendImages == 2
MaxBlendImages == 4

\* a request that admits one image more
BlendImagesRequest_wider(image_paths, blend_prompt, output_format, quality, maintain_consistency, optimize) ==
    [ok |-> /\ Len(image_paths) >= MinBlendImages
            /\ Len(image_paths) <= MaxBlendImages + 1
            /\ \A i \in 1..Len(image_paths) : image_paths[i].exists
            /\ Len(blend_prompt) >= MIN_PROMPT_LENGTH
            /\ Len(blend_prompt) <= MAX_PROMPT_LENGTH
            /\ output_format \in ImageFormatValues
            /\ quality \in QualityLevelValues \cup {None}
            /\ ~validate_bool_option(maintain_consistency).raised
            /\ ~validate_bool_option(optimize).raised,
     prompt |-> blend_prompt,
     maintain_consistency |-> validate_bool_option(maintain_consistency).value,
     optimize_prompt |-> validate_bool_option(optimize).value]

\* BlendImagesRequest(**request_data):
\* [ok, prompt, maintain_consistency, optimize_prompt]
BlendImagesRequest(image_paths, blend_prompt, output_format, quality, maintain_consistency, optimize) ==
    [ok |-> /\ Len(image_paths) >= MinBlendImages
            /\ Len(image_paths) <= MaxBlendImages
            /\ \A i \in 1..Len(image_paths) : image_paths[i].exists
            /\ Len(blend_prompt) >= MIN_PROMPT_LENGTH
            /\ Len(blend_prompt) <= MAX_PROMPT_LENGTH
            /\ output_format \in ImageFormatValues
            /\ quality \in QualityLevelValues \cup {None}
            /\ ~validate_bool_option(maintain_consistency).raised
            /\ ~validate_bool_option(optimize).raised,
     prompt |-> blend_prompt,
     maintain_consistency |-> validate_bool_option(maintain_consistency).value,
     optimize_prompt |-> validate_bool_option(optimize).value]

\* ImageMetadata(format=...): the format field is an ImageFormat
ImageMetadataValid(format) == format \in ImageFormatValues

----------------------------------------------------------------------------
(* tools/generate.py *)

GEMINI_MODEL_NAME == "gemini-2.5-flash-image-preview"

\* the optimized prompt the tools send to the provider: optimizer errors
\* are logged and the request prompt is used.  [text, cache]
tool_optimize(request_prompt, optimize, category, aspect_ratio, style, quality, additional_keywords, cache) ==
    LET Caught(o) == [text |-> IF o.raised THEN request_prompt ELSE o.text,
                      cache |-> o.cache]
    IN  IF optimize
        THEN Caught(optimize_prompt(request_prompt, category, aspect_ratio,
                        style, quality, additional_keywords, cache))
        ELSE [text |-> request_prompt, cache |-> cache]

\* decoding of one provider image in generate: [skip, raised, bytes, mime]
generate_decode(item) ==
    LET Dict(r) == [skip |-> FALSE, raised |-> r.raised, bytes |-> r.bytes,
                    mime |-> item.mime]
        Str(r) == [skip |-> r.raised, raised |-> FALSE, bytes |-> r.bytes,
                   mime |-> <<>>]
        Skip == [skip |-> TRUE, raised |-> FALSE, bytes |-> <<>>,
                 mime |-> <<>>]
    IN  IF item.shape = "bytes"
        THEN [skip |-> FALSE, raised |-> FALSE, bytes |-> item.data.val,
              mime |-> <<>>]
        ELSE IF item.shape = "dict"
        THEN IF item.data.type = "none" \/ item.data.val = <<>>
             THEN Skip
             ELSE Dict(base64_to_bytes(item.data))
        ELSE IF item.shape = "str"
        THEN Str(base64_to_bytes(item.data))
        ELSE Skip

\* the format generate persists an image in
generate_final_format(mime, image_data, requested) ==
    LET Sniffed(detected) ==
            IF mime = <<>> /\ detected # <<>> THEN <<"i","m","a","g","e","/">> \o detected
            ELSE mime
        Chosen(actual_mime_type) ==
            IF actual_mime_type # <<>> THEN FormatOfMime(actual_mime_type)
            ELSE requested
    IN  Chosen(Sniffed(detected_format(image_data)))

\* the loop over api_result["images"]: [raised, disk, processed, trace]
RECURSIVE generate_process(_, _, _, _, _, _, _)
generate_process(d, images, prompt, optimized_prompt, requested, t, io) ==
    IF images = <<>>
    THEN [raised |-> FALSE, disk |-> d, processed |-> <<>>, trace |-> <<>>]
    ELSE
    LET item == Head(images)
        metadata == [model_used |-> GEMINI_MODEL_NAME,
                     original_prompt |-> prompt,
                     optimized_prompt |-> optimized_prompt,
                     created_at |-> t]
        Rest(d1) == generate_process(d1, Tail(images), prompt,
                                     optimized_prompt, requested, t, io)
        Stop(disk, trace) ==
            [raised |-> TRUE, disk |-> disk, processed |-> <<>>,
             trace |-> trace]
        \* the image is on disk d1: its ImageMetadata, then the next image
        Written(dec, fmt, filename, file_size, hash, d1) ==
            LET record == [filename |-> filename,
                           filepath |-> FilePath("generated", filename),
                           operation_type |-> "generated",
                           format |-> fmt,
                           file_size |-> file_size,
                           hash |-> hash]
                entry == [mime |-> dec.mime,
                          sniffed |-> detected_format(dec.bytes),
                          requested |-> requested, format |-> fmt,
                          filepath |-> FilePath("generated", filename)]
                More(rest) ==
                    [raised |-> rest.raised, disk |-> rest.disk,
                     processed |-> <<record>> \o rest.processed,
                     trace |-> <<entry>> \o rest.trace]
            IN  IF ~ImageMetadataValid(fmt) THEN Stop(d1, <<entry>>)
                ELSE More(Rest(d1))
        \* the regular save, when Pillow could not write the image
        Fallback(dec, fmt, filename, saved) ==
            IF saved.raised THEN Stop(saved.disk, <<>>)
            ELSE Written(dec, fmt, filename, Len(dec.bytes),
                         Sha256(dec.bytes), saved.disk)
        \* the Pillow save writes the file and no ledger record
        Pillow(dec, fmt, filename, pil) ==
            IF ~pil.raised
            THEN Written(dec, fmt, filename, Len(pil.data), <<>>,
                     [d EXCEPT !.output =
                         [p \in DOMAIN d.output
                                \cup {FilePath("generated", filename)} |->
                             IF p = FilePath("generated", filename)
                             THEN [data |-> pil.data, mtime |-> t]
                             ELSE d.output[p]]])
            ELSE Fallback(dec, fmt, filename,
                     save_image_with_metadata(d, dec.bytes, "generated",
                         metadata, prompt, fmt, t, io))
        Formatted(dec, fmt) ==
            Pillow(dec, fmt, generate_filename("generated", prompt, fmt, t),
                   save_bytes_as_image(dec.bytes, fmt, item.pillow_opens))
        Decoded(dec) ==
            IF dec.skip THEN Rest(d)
            ELSE IF dec.raised THEN Stop(d, <<>>)
            ELSE Formatted(dec, generate_final_format(dec.mime, dec.bytes,
                                                      requested))
    IN  Decoded(generate_decode(item))

\* a response that reports success whatever was processed
generate_response_unchecked(processed, prompt, optimized_prompt, magic_installed) ==
    [success |-> TRUE,
     message |-> "Successfully generated",
     images |-> processed,
     original_prompt |-> prompt,
     optimized_prompt |-> optimized_prompt]

\* step 5 of nanobanana_generate: the response for the processed images;
\* the diagnostics of the empty case import debug_tools, which needs the
\* magic library
generate_response(processed, prompt, optimized_prompt, magic_installed) ==
    IF processed = <<>>
    THEN IF magic_installed
         THEN create_error_response("Failed to save generated images",
                                    "SAVE_ERROR")
         ELSE create_error_response("Failed to process generated images",
                                    "PROCESSING_ERROR")
    ELSE [success |-> TRUE,
          message |-> "Successfully generated",
          images |-> processed,
          original_prompt |-> prompt,
          optimized_prompt |-> optimized_prompt]

\* outcome of the provider call as the tools see it
ApiCode(provider) == IF provider.code # None THEN provider.code ELSE "API_ERROR"

\* tools.generate.nanobanana_generate:
\* [response, disk, cache, provider_called, sent, trace]
tool_generate(d, cache, t, prompt_is_str, prompt, style, quality, output_format, candidate_count, additional_keywords, optimize, provider, io, magic_installed) ==
    LET Fail(message, code, disk, c, called, sent, trace) ==
            [raised |-> FALSE,
             response |-> create_error_response(message, code),
             disk |-> disk, cache |-> c, provider_called |-> called,
             sent |-> sent, trace |-> trace]
        \* step 4, after the loop over the images
        Processed(request, opt, done) ==
            IF done.raised
            THEN Fail("Failed to process generated images",
                      "PROCESSING_ERROR", done.disk, opt.cache, TRUE,
                      opt.text, done.trace)
            ELSE [raised |-> FALSE,
                  response |-> generate_response(done.processed,
                                   request.prompt, opt.text, magic_installed),
                  disk |-> done.disk, cache |-> opt.cache,
                  provider_called |-> TRUE, sent |-> opt.text,
                  trace |-> done.trace]
        \* step 3, with the prompt of step 2
        Optimized(request, opt) ==
            IF provider.kind = "client_error"
            THEN Fail("Image generation failed", ApiCode(provider), d,
                      opt.cache, FALSE, <<>>, <<>>)
            ELSE IF provider.kind = "raise_api"
            THEN Fail("Image generation failed", ApiCode(provider), d,
                      opt.cache, TRUE, opt.text, <<>>)
            ELSE IF provider.kind = "raise_other"
            THEN Fail("Image generation failed", "GENERATION_ERROR", d,
                      opt.cache, TRUE, opt.text, <<>>)
            ELSE IF ~provider.success
            THEN Fail("API request unsuccessful", "API_ERROR", d, opt.cache,
                      TRUE, opt.text, <<>>)
            ELSE IF provider.images = <<>>
            THEN Fail("No images returned from API", "NO_IMAGES_ERROR", d,
                      opt.cache, TRUE, opt.text, <<>>)
            ELSE Processed(request, opt,
                     generate_process(d, provider.images, request.prompt,
                         opt.text, output_format, t, io))
        \* step 2, with the request of step 1
        Validated(request) ==
            IF ~request.ok
            THEN Fail("Invalid request parameters", "VALIDATION_ERROR", d,
                      cache, FALSE, <<>>, <<>>)
            ELSE Optimized(request,
                     tool_optimize(request.prompt, request.optimize_prompt,
                         "generation",
                         None, style, quality, additional_keywords, cache))
    IN  IF ~prompt_is_str
        THEN Fail("Unexpected error", "INTERNAL_ERROR", d, cache, FALSE, <<>>,
                  <<>>)
        ELSE Validated(GenerateImageRequest(prompt, style, quality,
                 output_format,
                 IF Truthy(candidate_count) THEN candidate_count ELSE PyInt(1),
                 IF optimize.type # "NoneType" THEN optimize ELSE PyBool(TRUE)))

----------------------------------------------------------------------------
(* tools/edit.py and tools/blend.py *)

\* the result image of edit and of blend: [code, raised, disk, image, trace];
\* code is None unless the tool returns an error response of that code
save_single_result(d, images, operation_type, prompt, optimized_prompt, requested, extra, t, io) ==
    LET item == images[1]
        has_data == item.shape = "bytes" \/
                    (item.shape = "dict" /\ item.data.type # "none"
                                         /\ item.data.val # <<>>) \/
                    item.shape = "str"
        actual_mime_type == IF item.shape = "dict" THEN item.mime ELSE <<>>
        final_output_format ==
            IF actual_mime_type # <<>> THEN FormatOfMime(actual_mime_type)
            ELSE requested
        metadata == Merge([model_used |-> GEMINI_MODEL_NAME,
                           original_prompt |-> prompt,
                           optimized_prompt |-> optimized_prompt], extra)
        Out(code, raised, disk) ==
            [code |-> code, raised |-> raised, disk |-> disk,
             image |-> <<>>, trace |-> <<>>]
        Saved(dec, saved) ==
            IF saved.raised THEN Out(None, TRUE, saved.disk)
            ELSE IF ~ImageMetadataValid(final_output_format)
            THEN Out(None, TRUE, saved.disk)
            ELSE [code |-> None, raised |-> FALSE, disk |-> saved.disk,
                  image |-> [filename |-> saved.result.filename,
                             filepath |-> saved.result.filepath,
                             operation_type |-> operation_type,
                             format |-> final_output_format,
                             file_size |-> saved.result.metadata["file_size"],
                             hash |-> saved.result.metadata["hash"]],
                  trace |-> <<[mime |-> actual_mime_type,
                               sniffed |-> detected_format(dec.bytes),
                               requested |-> requested,
                               format |-> final_output_format,
                               filepath |-> saved.result.filepath]>>]
        Decoded(dec) ==
            IF dec.raised THEN Out(None, TRUE, d)
            ELSE Saved(dec, save_image_with_metadata(d, dec.bytes,
                                operation_type, metadata, prompt,
                                final_output_format, t, io))
    IN  IF images = <<>> THEN Out("NO_RESULT_ERROR", FALSE, d)
        ELSE IF ~has_data THEN Out("DATA_FORMAT_ERROR", FALSE, d)
        ELSE Decoded(IF item.shape = "bytes"
                     THEN [raised |-> FALSE, bytes |-> item.data.val]
                     ELSE base64_to_bytes(item.data))

\* steps 3 to 6 of nanobanana_edit and of nanobanana_blend, which differ in
\* the names only: [response, disk, cache, provider_called, sent, trace]
tool_transform(d, cache, t, operation_type, category, raise_code, result_key, request, loadable, quality, additional_keywords, requested, extra, provider, io) ==
    LET Fail(message, code, disk, c, called, sent) ==
            [raised |-> FALSE,
             response |-> create_error_response(message, code),
             disk |-> disk, cache |-> c, provider_called |-> called,
             sent |-> sent, trace |-> <<>>]
        \* steps 5 and 6, after the result image was handled
        Processed(opt, done) ==
            IF done.code # None
            THEN Fail("No usable result image", done.code, d, opt.cache,
                      TRUE, opt.text)
            ELSE IF done.raised
            THEN Fail("Failed to process image", "PROCESSING_ERROR",
                      done.disk, opt.cache, TRUE, opt.text)
            ELSE [raised |-> FALSE,
                  response |-> Merge([success |-> TRUE,
                                      message |-> "completed successfully",
                                      prompt |-> request.prompt,
                                      optimized_prompt |-> opt.text],
                                     result_key :> done.image),
                  disk |-> done.disk, cache |-> opt.cache,
                  provider_called |-> TRUE, sent |-> opt.text,
                  trace |-> done.trace]
        \* step 4, with the prompt of step 3
        Optimized(opt) ==
            IF provider.kind = "client_error"
            THEN Fail("Provider call failed", ApiCode(provider), d,
                      opt.cache, FALSE, <<>>)
            ELSE IF provider.kind = "raise_api"
            THEN Fail("Provider call failed", ApiCode(provider), d,
                      opt.cache, TRUE, opt.text)
            ELSE IF provider.kind = "raise_other"
            THEN Fail("Provider call failed", raise_code, d, opt.cache, TRUE,
                      opt.text)
            ELSE Processed(opt,
                     save_single_result(d, provider.images, operation_type,
                         request.prompt, opt.text, requested, extra, t, io))
    IN  IF ~request.ok
        THEN Fail("Invalid request parameters", "VALIDATION_ERROR", d, cache,
                  FALSE, <<>>)
        ELSE IF ~loadable
        THEN Fail("Failed to load or validate images", "IMAGE_LOAD_ERROR", d,
                  cache, FALSE, <<>>)
        ELSE Optimized(tool_optimize(request.prompt, request.optimize_prompt,
                           category, None, None, quality,
                           additional_keywords, cache))

\* an edit that sends the prompt to the provider before it looks at the
\* outcome of the request validation
tool_edit_eager(d, cache, t, image, edit_prompt, output_format, quality, optimize, provider, io) ==
    LET Sent(request, r) ==
            IF request.ok THEN r
            ELSE [r EXCEPT !.provider_called = TRUE, !.sent = edit_prompt]
        Requested(request) ==
            Sent(request,
                 tool_transform(d, cache, t, "edited", "editing",
                     "EDITING_ERROR", "edited_image", request,
                     image.loadable, quality, <<>>, output_format,
                     [original_image_info |->
                         [format |-> image.format, exif |-> image.exif]],
                     provider, io))
    IN  Requested(EditImageRequest(image, edit_prompt, output_format,
            quality,
            IF optimize.type # "NoneType" THEN optimize ELSE PyBool(TRUE)))

\* tools.edit.nanobanana_edit
tool_edit(d, cache, t, image, edit_prompt, output_format, quality, optimize, provider, io) ==
    tool_transform(d, cache, t, "edited", "editing", "EDITING_ERROR",
        "edited_image",
        EditImageRequest(image, edit_prompt, output_format, quality,
            IF optimize.type # "NoneType" THEN optimize ELSE PyBool(TRUE)),
        image.loadable, quality, <<>>, output_format,
        [original_image_info |-> [format |-> image.format, exif |-> image.exif]],
        provider, io)

\* tools.blend.nanobanana_blend
tool_blend(d, cache, t, image_paths, blend_prompt, maintain_consistency, output_format, quality, optimize, provider, io) ==
    LET Requested(request) ==
            tool_transform(d, cache, t, "blended", "blending",
                "BLENDING_ERROR", "blended_image", request,
                \A i \in 1..Len(image_paths) : image_paths[i].loadable,
                quality,
                IF request.maintain_consistency THEN ConsistencyKeywords
                ELSE <<>>,
                output_format,
                [blend_complexity |-> Len(image_paths)],
                provider, io)
    IN  Requested(BlendImagesRequest(image_paths, blend_prompt,
            output_format, quality,
            IF maintain_consistency.type # "NoneType"
            THEN maintain_consistency ELSE PyBool(TRUE),
            IF optimize.type # "NoneType" THEN optimize ELSE PyBool(TRUE)))

----------------------------------------------------------------------------
(* tools/status.py *)

\* dict.get(key, default)
DictGet(d, key, default) == IF key \in DOMAIN d THEN d[key] ELSE default

\* {"error": str(e)}: the slot of a collector whose exception gather returned
ErrorSlot == [error |-> "exception"]

\* GeminiClient.health_check: models.list() answers, or its exception is
\* caught
health_check(reachable) ==
    IF reachable
    THEN [status |-> "healthy", api_accessible |-> TRUE]
    ELSE [status |-> "unhealthy", api_accessible |-> FALSE,
          error |-> "exception"]

\* collect_api_status; api \in {"up", "down", "no_client"}: with no client
\* create_gemini_client raises and the except branch answers
collect_api_status(api) ==
    LET Report(health_result) ==
            [api_accessible |-> DictGet(health_result, "api_accessible", FALSE),
             model |-> DictGet(health_result, "model", GEMINI_MODEL_NAME),
             status |-> DictGet(health_result, "status", "unknown"),
             vertex_ai |-> DictGet(health_result, "vertex_ai", FALSE),
             error |-> DictGet(health_result, "error", None)]
    IN  IF api = "no_client"
        THEN [api_accessible |-> FALSE, status |-> "error",
              error |-> "exception"]
        ELSE Report(health_check(api = "up"))

\* collect_server_info; settings_ok: get_settings() answers
collect_server_info(settings_ok, uptime) ==
    IF settings_ok
    THEN [name |-> "nanobanana-mcp", version |-> "1.0.0", uptime |-> uptime]
    ELSE [name |-> "nanobanana-mcp", version |-> "1.0.0",
          error |-> "exception"]

\* collect_performance_stats: counts of the ledger's records
collect_performance_stats(led) ==
    LET Count(operation_type) ==
            Len(get_image_history(led, PyInt(10000), operation_type))
    IN  [total_operations |->
             Count("generated") + Count("edited") + Count("blended"),
         operations_breakdown |->
             [generated |-> Count("generated"), edited |-> Count("edited"),
              blended |-> Count("blended")]]

\* collect_storage_stats; used_percent = -1: psutil.disk_usage raises
collect_storage_stats(led, used_percent) ==
    [total_images |-> Len(get_image_history(led, PyInt(50), None)),
     disk_usage |-> IF used_percent < 0 THEN ErrorSlot
                    ELSE [used_percent |-> used_percent]]

\* collect_system_info; percent_used = -1: psutil.virtual_memory raises
collect_system_info(detailed, percent_used) ==
    IF ~detailed THEN [platform |-> "linux"]
    ELSE IF percent_used < 0
    THEN [platform |-> "linux", detailed_info_error |-> "exception"]
    ELSE [platform |-> "linux", memory |-> [percent_used |-> percent_used]]

\* collect_recent_history: at most five records of each operation type
collect_recent_history(led) ==
    [recent_generated |-> get_image_history(led, PyInt(5), "generated"),
     recent_edited |-> get_image_history(led, PyInt(5), "edited"),
     recent_blended |-> get_image_history(led, PyInt(5), "blended")]

\* calculate_overall_status with the threshold of the disk moved
calculate_overall_status_strict(api_status, storage_stats, system_info) ==
    LET Verdict(api_healthy, disk_usage, memory_info) ==
            LET storage_ok == ~("used_percent" \in DOMAIN disk_usage
                                /\ disk_usage.used_percent >= 90)
                memory_ok == ~("percent_used" \in DOMAIN memory_info
                               /\ memory_info.percent_used > 85)
            IN  IF api_healthy /\ storage_ok /\ memory_ok THEN "healthy"
                ELSE IF api_healthy THEN "degraded"
                ELSE "unhealthy"
    IN  Verdict(DictGet(api_status, "api_accessible", FALSE),
                DictGet(storage_stats, "disk_usage", <<>>),
                DictGet(system_info, "memory", <<>>))

\* calculate_overall_status
calculate_overall_status(api_status, storage_stats, system_info) ==
    LET Verdict(api_healthy, disk_usage, memory_info) ==
            LET storage_ok == ~("used_percent" \in DOMAIN disk_usage
                                /\ disk_usage.used_percent > 90)
                memory_ok == ~("percent_used" \in DOMAIN memory_info
                               /\ memory_info.percent_used > 85)
            IN  IF api_healthy /\ storage_ok /\ memory_ok THEN "healthy"
                ELSE IF api_healthy THEN "degraded"
                ELSE "unhealthy"
    IN  Verdict(DictGet(api_status, "api_accessible", FALSE),
                DictGet(storage_stats, "disk_usage", <<>>),
                DictGet(system_info, "memory", <<>>))

\* the fields ServerStatusResponse declares, and those without a default
ServerStatusFields == {"success", "message", "timestamp", "server_name", "version", "uptime", "api_status", "storage_stats", "performance_stats", "system_info"}
ServerStatusRequired == ServerStatusFields \ {"message", "timestamp"}

\* ServerStatusResponse(**response_data).dict(): a missing required field
\* is a validation error, a field the model does not declare is ignored
ServerStatusResponse(response_data) ==
    IF ServerStatusRequired \subseteq DOMAIN response_data
    THEN [raised |-> FALSE,
          value |-> [f \in DOMAIN response_data \cap ServerStatusFields |->
                         response_data[f]]]
    ELSE [raised |-> TRUE, value |-> <<>>]

\* the collectors asyncio.gather runs; raised[c]: the task of collector c
\* ended with an exception, which gather returns in its place
gather_status(led, detailed, include_history, probe, raised) ==
    LET Slot(c, result) == IF raised[c] THEN ErrorSlot ELSE result
    IN  [api_status |-> Slot("api", collect_api_status(probe.api)),
         server_info |->
             Slot("server", collect_server_info(probe.settings_ok, probe.uptime)),
         performance_stats |->
             Slot("performance", collect_performance_stats(led)),
         storage_stats |->
             Slot("storage", collect_storage_stats(led, probe.used_percent)),
         system_info |->
             Slot("system", collect_system_info(detailed, probe.percent_used)),
         recent_history |->
             IF include_history
             THEN Slot("history", collect_recent_history(led))
             ELSE <<>>]

\* tools.status.nanobanana_status
tool_status(led, t, detailed, include_history, reset_stats, probe, raised) ==
    LET Respond(r) ==
            IF r.raised
            THEN create_error_response("Failed to generate status response",
                                       "RESPONSE_ERROR")
            ELSE r.value
        Short(g, overall_status) ==
            [success |-> TRUE, message |-> <<"Server status: ", overall_status>>,
             server_name |-> "nanobanana-mcp", version |-> "1.0.0",
             uptime |-> DictGet(g.server_info, "uptime", 0),
             api_accessible |->
                 DictGet(g.api_status, "api_accessible", FALSE),
             overall_status |-> overall_status, timestamp |-> t]
        Full(g, overall_status) ==
            Merge([success |-> TRUE, message |-> <<"Server status: ", overall_status>>,
                   timestamp |-> t,
                   server_name |->
                       DictGet(g.server_info, "name", "nanobanana-mcp"),
                   version |-> DictGet(g.server_info, "version", "1.0.0"),
                   uptime |-> DictGet(g.server_info, "uptime", 0),
                   api_status |-> g.api_status,
                   storage_stats |-> g.storage_stats,
                   performance_stats |-> g.performance_stats,
                   system_info |-> g.system_info,
                   overall_status |-> overall_status,
                   stats_reset |-> reset_stats],
                  IF include_history
                  THEN [recent_history |-> g.recent_history] ELSE <<>>)
        Built(g, overall_status) ==
            Respond(ServerStatusResponse(
                IF detailed THEN Full(g, overall_status)
                ELSE Short(g, overall_status)))
        Judged(g) ==
            Built(g, calculate_overall_status(g.api_status, g.storage_stats,
                                              g.system_info))
    IN  Judged(gather_status(led, detailed, include_history, probe, raised))

----------------------------------------------------------------------------
(* Inputs explored *)


PngBytes == PNG_SIGNATURE \o <<0>>
JpegBytes == JPEG_SIGNATURE \o <<224>>

PromptCat == <<"a"," ","c","a","t">>
PromptRedCat == <<"a"," ","r","e","d"," ","c","a","t">>

\* metadata dictionaries a caller of the file manager passes
CallerMetadata ==
    {<<>>,
     [file_size |-> 0],
     [operation_type |-> "blended"],
     [exif |-> "bytes"]}

CacheFileSizes == {400 * MB, 450 * MB, 600 * MB}
CacheFileNames == {"f1", "f2", "f3", "f4"}
TickSteps == {1, cache_expiry * HourSeconds}

PromptGore == <<"a"," ","g","o","r","e"," ","s","c","e","n","e">>
PromptShort == <<"a","b">>
PromptMakeRed == <<"m","a","k","e"," ","i","t"," ","r","e","d">>
PromptMix == <<"m","i","x"," ","t","h","e","m">>
PromptKorean == <<"k:go","k:yang","k:i">>
PromptClearSky == <<"a"," ","s","k","y",","," ","C","l","e","a","r">>
KeywordCute == <<"c","u","t","e">>
KeywordGore == <<"G","o","r","e">>
\* a prompt ten characters short of the longest one a request admits
PromptLong == [i \in 1..(MAX_PROMPT_LENGTH - 10) |-> "x"]
MimePng == <<"i","m","a","g","e","/","p","n","g">>
MimeWebp == <<"i","m","a","g","e","/","w","e","b","p">>
MimeJpg == <<"i","m","a","g","e","/","J","P","G">>
MimeGif == <<"i","m","a","g","e","/","g","i","f">>
MimeJpegCharset == <<"i","m","a","g","e","/","j","p","e","g",";"," ","c","h","a","r","s","e","t","=","u","t","f","-","8">>
MimeUpperPng == <<"I","M","A","G","E","/","P","N","G">>

WebpBytes == RIFF_SIGNATURE \o <<26, 0, 0, 0>> \o WEBP_TAG \o <<157>>
GifBytes == GIF_SIGNATURE \o <<57, 97, 200>>
UnknownBytes == <<0, 255>>
\* base64 text of PngBytes, and a text that is not base64
PngBase64 == <<105, 86, 66, 79, 82, 119, 48, 75, 71, 103, 111, 65>>
NotBase64 == <<97, 98, 99, 100, 101>>

Item(shape, type, val, mime, pillow_opens) ==
    [shape |-> shape, data |-> [type |-> type, val |-> val], mime |-> mime,
     pillow_opens |-> pillow_opens]

ItemPng == Item("dict", "bytes", PngBytes, MimePng, TRUE)
ItemPngNoMime == Item("dict", "bytes", PngBytes, <<>>, TRUE)
ItemWebp == Item("dict", "bytes", WebpBytes, MimeWebp, TRUE)
ItemJpg == Item("dict", "bytes", JpegBytes, MimeJpg, FALSE)
ItemGif == Item("dict", "bytes", GifBytes, MimeGif, TRUE)
ItemNoData == Item("dict", "none", <<>>, MimePng, FALSE)
ItemRawPng == Item("bytes", "bytes", PngBytes, <<>>, FALSE)
ItemBase64 == Item("str", "str", PngBase64, <<>>, TRUE)
ItemNotBase64 == Item("str", "str", NotBase64, <<>>, FALSE)
ItemOther == Item("other", "none", <<>>, <<>>, FALSE)
ItemUnknown == Item("dict", "bytes", UnknownBytes, <<>>, FALSE)
ItemDictNotBase64 == Item("dict", "str", NotBase64, MimePng, FALSE)
ItemJpegCharset == Item("dict", "bytes", JpegBytes, MimeJpegCharset, TRUE)
ItemUpperPng == Item("dict", "bytes", PngBytes, MimeUpperPng, TRUE)

Provider(kind, code, success, images) ==
    [kind |-> kind, code |-> code, success |-> success, images |-> images]

ProviderOk == Provider("result", None, TRUE, <<ItemPng>>)

\* what the provider gateway does when called
ProviderFailures ==
    {Provider("client_error", None, FALSE, <<>>),
     Provider("raise_api", "E101", FALSE, <<>>),
     Provider("raise_other", None, FALSE, <<>>),
     Provider("result", None, FALSE, <<>>),
     Provider("result", None, TRUE, <<>>)}

ProviderImageLists ==
    {<<ItemPng>>, <<ItemPngNoMime>>, <<ItemWebp>>, <<ItemJpg>>, <<ItemGif>>,
     <<ItemNoData>>, <<ItemRawPng>>, <<ItemBase64>>, <<ItemNotBase64>>,
     <<ItemOther>>, <<ItemUnknown>>,
     <<ItemNoData, ItemPng>>, <<ItemPng, ItemPng>>, <<ItemJpg, ItemGif>>,
     <<ItemPng, ItemNotBase64>>, <<ItemPng, ItemDictNotBase64>>,
     <<ItemJpegCharset>>, <<ItemUpperPng>>}

ProviderOutcomes ==
    ProviderFailures \cup
    {Provider("result", None, TRUE, images) : images \in ProviderImageLists}

\* image files a caller names: [exists, loadable, format, exif]
SrcPng == [exists |-> TRUE, loadable |-> TRUE, format |-> "PNG",
           exif |-> "none"]
SrcPhoto == [exists |-> TRUE, loadable |-> TRUE, format |-> "JPEG",
             exif |-> "bytes"]
SrcMissing == [exists |-> FALSE, loadable |-> FALSE, format |-> "PNG",
               exif |-> "none"]
SrcCorrupt == [exists |-> TRUE, loadable |-> FALSE, format |-> "PNG",
               exif |-> "none"]

\* the calls of generate that are explored: every prompt and option with
\* a provider that answers, and every provider outcome for one prompt
GenerateInputs ==
    {[prompt_is_str |-> TRUE, prompt |-> p, style |-> st, optimize |-> o,
      output_format |-> FmtPng, provider |-> ProviderOk, io |-> "ok",
      magic_installed |-> TRUE] :
        p \in {PromptCat, PromptGore, PromptKorean, PromptShort},
        st \in {None, "sketch"}, o \in BOOLEAN}
    \cup
    {[prompt_is_str |-> s, prompt |-> PromptCat, style |-> None,
      optimize |-> FALSE, output_format |-> f, provider |-> pr, io |-> io,
      magic_installed |-> m] :
        s \in BOOLEAN, f \in {FmtPng, FmtJpeg}, pr \in ProviderOutcomes,
        io \in WriteOutcomes, m \in BOOLEAN}

EditInputs ==
    {[image |-> SrcPng, prompt |-> p, optimize |-> o,
      output_format |-> FmtPng, provider |-> ProviderOk, io |-> "ok"] :
        p \in {PromptMakeRed, PromptGore, PromptShort}, o \in BOOLEAN}
    \cup
    {[image |-> im, prompt |-> PromptMakeRed, optimize |-> FALSE,
      output_format |-> f, provider |-> pr, io |-> io] :
        im \in {SrcPng, SrcPhoto, SrcMissing, SrcCorrupt},
        f \in {FmtPng, FmtJpeg}, pr \in ProviderOutcomes,
        io \in WriteOutcomes}

\* values a caller passes as candidate_count
CandidateCounts ==
    {PyNone, PyInt(0), PyInt(0 - 1), PyInt(1), PyInt(3), PyInt(4), PyInt(5),
     PyFloat(15),
     PyStr(<<"3">>), PyStr(<<" ", "3", " ">>), PyStr(<<"0">>), PyStr(<<"7">>),
     PyStr(<<"-", "2">>), PyStr(<<"a", "b", "c">>), PyStr(<<"1", ".", "5">>),
     PyStr(<<>>)}

\* values a caller passes as optimize_prompt or maintain_consistency
BoolOptions ==
    {PyNone, PyBool(TRUE), PyBool(FALSE), PyInt(1), PyInt(0), PyInt(2),
     PyFloat(0), PyList(<<>>),
     PyStr(<<"t","r","u","e">>), PyStr(<<"T","R","U","E">>),
     PyStr(<<" ","Y","e","s"," ">>), PyStr(<<"o","n">>), PyStr(<<"1">>),
     PyStr(<<"f","a","l","s","e">>), PyStr(<<"0">>), PyStr(<<"N","o">>),
     PyStr(<<"O","F","F"," ">>),
     PyStr(<<"m","a","y","b","e">>), PyStr(<<"2">>), PyStr(<<>>)}

\* the optimize_prompt values of the generate calls that vary the count
GenerateOptimizeOptions ==
    {PyNone, PyBool(FALSE), PyStr(<<"m","a","y","b","e">>)}

\* image paths a blend call names, at most
MaxPaths == 5

BlendPathLists ==
    {[i \in 1..n |-> SrcPng] : n \in 0..MaxPaths}
    \cup {<<SrcPng, SrcMissing>>, <<SrcPng, SrcCorrupt>>}

BlendInputs ==
    {[image_paths |-> <<SrcPng, SrcPng>>, prompt |-> p, optimize |-> o,
      maintain_consistency |-> mc, output_format |-> FmtPng,
      provider |-> ProviderOk, io |-> "ok"] :
        p \in {PromptMix, PromptGore}, o \in BOOLEAN, mc \in BOOLEAN}
    \cup
    {[image_paths |-> ps, prompt |-> PromptMix, optimize |-> FALSE,
      maintain_consistency |-> TRUE, output_format |-> FmtPng,
      provider |-> pr, io |-> "ok"] :
        ps \in BlendPathLists, pr \in ProviderOutcomes}
    \cup
    {[image_paths |-> <<SrcPng, SrcPng>>, prompt |-> PromptMix,
      optimize |-> FALSE, maintain_consistency |-> TRUE, output_format |-> f,
      provider |-> ProviderOk, io |-> io] :
        f \in {FmtPng, FmtJpeg}, io \in WriteOutcomes}

----------------------------------------------------------------------------
(* State machine *)

Init ==
    /\ output_files = <<>>
    /\ ledger = [state |-> "missing", images |-> <<>>]
    /\ cache_files = <<>>
    /\ cache_index = [state |-> "missing", files |-> {}]
    /\ translation_cache = <<>>
    /\ now = 0
    /\ ticks = 0
    /\ ops = 0
    /\ call = [op |-> "none"]

SetDisk(d) ==
    /\ output_files' = d.output
    /\ ledger' = d.ledger
    /\ cache_files' = d.cache
    /\ cache_index' = d.index

\* the clock advances
Tick ==
    /\ ticks < MaxTicks
    /\ \E dt \in TickSteps : now' = now + dt
    /\ ticks' = ticks + 1
    /\ UNCHANGED <<output_files, ledger, cache_files, cache_index,
                   translation_cache, ops, call>>

\* another program writes a file into the cache directory
CachePut ==
    /\ Cardinality(DOMAIN cache_files \ {IndexFile}) < MaxCacheFiles
    /\ \E size \in CacheFileSizes :
          LET name == CHOOSE n \in CacheFileNames \ DOMAIN cache_files :
                          \A m \in CacheFileNames \ DOMAIN cache_files :
                              n = m \/ ~StartsWith(<<n>>, <<m>>)
          IN  cache_files' =
                  [n \in DOMAIN cache_files \cup {name} |->
                      IF n = name THEN [size |-> size, mtime |-> now]
                      ELSE cache_files[n]]
    /\ UNCHANGED <<output_files, ledger, cache_index, translation_cache,
                   now, ticks, ops, call>>

\* FileManager.save_image_with_metadata
Save ==
    /\ ops < MaxOps
    /\ \E image_data \in {PngBytes, JpegBytes},
          operation_type \in {"generated", "edited"},
          metadata \in CallerMetadata,
          io \in WriteOutcomes :
          LET prompt == PromptCat
              r == save_image_with_metadata(Disk, image_data, operation_type,
                       metadata, prompt, FmtPng, now, io)
              path == FilePath(operation_type,
                          generate_filename(operation_type, prompt, FmtPng,
                                            now))
          IN  /\ SetDisk(r.disk)
              /\ call' = [op |-> "save",
                          image_data |-> image_data,
                          operation_type |-> operation_type,
                          metadata |-> metadata,
                          path |-> path,
                          file_existed |-> path \in DOMAIN output_files,
                          records_before |->
                              Len(get_image_history(ledger, PyNone, operation_type)),
                          ledger_before |-> ledger.state,
                          raised |-> r.raised]
    /\ ops' = ops + 1
    /\ UNCHANGED <<translation_cache, now, ticks>>

\* the limits a caller of get_image_history passes
HistoryLimits == {PyNone, PyInt(0), PyInt(1), PyInt(2)}

\* FileManager.get_image_history
History ==
    /\ ops < MaxOps
    /\ \E operation_type \in {None, "generated", "edited"},
          limit \in HistoryLimits :
          call' = [op |-> "history", operation_type |-> operation_type,
                   limit |-> limit,
                   result |-> get_image_history(ledger, limit, operation_type)]
    /\ ops' = ops + 1
    /\ UNCHANGED <<output_files, ledger, cache_files, cache_index,
                   translation_cache, now, ticks>>

\* FileManager.find_images_by_prompt
Search ==
    /\ ops < MaxOps
    /\ \E prompt \in {PromptCat, PromptRedCat} :
          call' = [op |-> "search", prompt |-> prompt,
                   result |-> find_images_by_prompt(ledger, prompt)]
    /\ ops' = ops + 1
    /\ UNCHANGED <<output_files, ledger, cache_files, cache_index,
                   translation_cache, now, ticks>>

\* FileManager.manage_cache
ManageCache ==
    /\ ops < MaxOps
    /\ LET r == manage_cache(Disk, now)
       IN  /\ SetDisk(r.disk)
           /\ call' = [op |-> "manage_cache",
                       cache_before |-> cache_files,
                       expired |-> r.expired,
                       old_files |-> r.old_files,
                       current_size |-> r.current_size,
                       at |-> now]
    /\ ops' = ops + 1
    /\ UNCHANGED <<translation_cache, now, ticks>>

StoreNext == Save \/ History \/ Search \/ ManageCache \/ Tick

StoreSpec == Init /\ [][StoreNext]_vars

CacheNext == CachePut \/ ManageCache \/ Tick

CacheSpec == Init /\ [][CacheNext]_vars

----------------------------------------------------------------------------
(* server.py: the registered tools *)

\* get_settings() stands before the try block of generate, edit and blend:
\* when it raises, the tool raises
settings_failure(d, cache) ==
    [raised |-> TRUE, response |-> <<>>, disk |-> d, cache |-> cache,
     provider_called |-> FALSE, sent |-> <<>>, trace |-> <<>>]

\* the wrapper of each tool: an exception of the tool becomes an error
\* response
server_tool(result, code) ==
    IF result.raised
    THEN create_error_response("Image operation failed", code)
    ELSE result.response

ToolDone(op, prompt, n_images, options, r, code) ==
    /\ SetDisk(r.disk)
    /\ translation_cache' = r.cache
    /\ call' = [op |-> op,
                prompt |-> prompt,
                n_images |-> n_images,
                options |-> options,
                response |-> server_tool(r, code),
                provider_called |-> r.provider_called,
                sent |-> r.sent,
                trace |-> r.trace]
    /\ ops' = ops + 1
    /\ UNCHANGED <<now, ticks>>

\* nanobanana_generate
Generate ==
    /\ ops < MaxCalls
    /\ \/ \E in \in GenerateInputs :
             ToolDone("generate",
                      IF in.prompt_is_str THEN in.prompt ELSE <<>>, 0,
                      [candidate_count |-> PyInt(1),
                       optimize_prompt |-> PyBool(in.optimize),
                       candidates |-> in.provider.images],
                      tool_generate(Disk, translation_cache, now,
                          in.prompt_is_str, in.prompt, in.style, "high",
                          in.output_format, PyInt(1), <<>>,
                          PyBool(in.optimize), in.provider, in.io,
                          in.magic_installed),
                      "GENERATION_ERROR")
       \/ \E cc \in CandidateCounts, opt \in GenerateOptimizeOptions :
             ToolDone("generate", PromptCat, 0,
                      [candidate_count |-> cc, optimize_prompt |-> opt],
                      tool_generate(Disk, translation_cache, now, TRUE,
                          PromptCat, None, "high", FmtPng, cc, <<>>, opt,
                          ProviderOk, "ok", TRUE),
                      "GENERATION_ERROR")
       \/ ToolDone("generate", PromptCat, 0,
                   [candidate_count |-> PyInt(1),
                    optimize_prompt |-> PyBool(TRUE)],
                   settings_failure(Disk, translation_cache),
                   "GENERATION_ERROR")

\* nanobanana_edit
Edit ==
    /\ ops < MaxCalls
    /\ \/ \E in \in EditInputs :
             ToolDone("edit", in.prompt, 1,
                      [optimize_prompt |-> PyBool(in.optimize)],
                      tool_edit(Disk, translation_cache, now, in.image,
                          in.prompt, in.output_format, "high",
                          PyBool(in.optimize), in.provider, in.io),
                      "EDIT_ERROR")
       \/ ToolDone("edit", PromptMakeRed, 1,
                   [optimize_prompt |-> PyBool(TRUE)],
                   settings_failure(Disk, translation_cache), "EDIT_ERROR")

\* nanobanana_blend
Blend ==
    /\ ops < MaxCalls
    /\ \/ \E in \in BlendInputs :
             ToolDone("blend", in.prompt, Len(in.image_paths),
                      [optimize_prompt |-> PyBool(in.optimize),
                       maintain_consistency |->
                           PyBool(in.maintain_consistency)],
                      tool_blend(Disk, translation_cache, now, in.image_paths,
                          in.prompt, PyBool(in.maintain_consistency),
                          in.output_format, "high", PyBool(in.optimize),
                          in.provider, in.io),
                      "BLEND_ERROR")
       \/ ToolDone("blend", PromptMix, 2,
                   [optimize_prompt |-> PyBool(TRUE),
                    maintain_consistency |-> PyBool(TRUE)],
                   settings_failure(Disk, translation_cache), "BLEND_ERROR")

\* the arguments of the optimizer calls explored: every prompt with two
\* styles, one prompt with every style, one long prompt, and one prompt
\* with additional keywords
OptimizeInputs ==
    {[prompt |-> p, style |-> st, quality_level |-> q, aspect_ratio |-> ar,
      additional_keywords |-> <<>>] :
        p \in {PromptCat, PromptKorean, PromptShort, PromptGore, PromptClearSky},
        st \in {None, "sketch"}, q \in {"medium", "auto"},
        ar \in {None, "landscape"}}
    \cup
    {[prompt |-> PromptCat, style |-> st, quality_level |-> q,
      aspect_ratio |-> ar, additional_keywords |-> <<>>] :
        st \in StylePresetValues, q \in {"high", "medium"},
        ar \in {"photo"}}
    \cup
    {[prompt |-> PromptLong, style |-> None, quality_level |-> "high",
      aspect_ratio |-> None, additional_keywords |-> <<>>]}
    \cup
    {[prompt |-> PromptCat, style |-> None, quality_level |-> "high",
      aspect_ratio |-> None, additional_keywords |-> kw] :
        kw \in {<<KeywordCute>>, <<KeywordGore>>, <<KeywordCute, KeywordGore>>}}

\* PromptOptimizer.optimize_prompt on the optimizer of the process
Optimize ==
    /\ ops < MaxCalls
    /\ \E in \in OptimizeInputs :
          LET Returned(o) ==
                  /\ translation_cache' = o.cache
                  /\ call' = [op |-> "optimize", args |-> in,
                              cached |-> in.prompt \in DOMAIN translation_cache,
                              raised |-> o.raised, code |-> o.code,
                              text |-> o.text]
          IN  Returned(optimize_prompt(in.prompt, "generation",
                           in.aspect_ratio,
                           in.style, in.quality_level,
                           in.additional_keywords,
                           translation_cache))
    /\ ops' = ops + 1
    /\ UNCHANGED <<output_files, ledger, cache_files, cache_index, now, ticks>>

\* optimize_prompt on the text the last call returned, with the category,
\* style, quality and aspect ratio of that call
Reoptimize ==
    /\ call.op = "optimize"
    /\ ~call.raised
    /\ LET Returned(o) ==
               /\ translation_cache' = o.cache
               /\ call' = [op |-> "reoptimize", args |-> call.args,
                           first |-> call.text,
                           raised |-> o.raised, code |-> o.code,
                           text |-> o.text]
       IN  Returned(optimize_prompt(call.text, "generation",
                        call.args.aspect_ratio,
                        call.args.style, call.args.quality_level,
                        call.args.additional_keywords,
                        translation_cache))
    /\ UNCHANGED <<output_files, ledger, cache_files, cache_index, now, ticks,
                   ops>>

OptimizerNext == Optimize \/ Reoptimize

OptimizerSpec == Init /\ [][OptimizerNext]_vars

\* validate_generation_request
ValidateGeneration ==
    /\ ops < MaxCalls
    /\ \E in \in (CandidateCounts \X GenerateOptimizeOptions)
                   \cup ({PyInt(1)} \X BoolOptions) :
          call' = [op |-> "validate_generation",
                   candidate_count |-> in[1],
                   optimize_prompt |-> in[2],
                   request |-> GenerateImageRequest(PromptCat, None, "high",
                                   FmtPng, in[1], in[2])]
    /\ ops' = ops + 1
    /\ UNCHANGED <<output_files, ledger, cache_files, cache_index,
                   translation_cache, now, ticks>>

\* validate_edit_request
ValidateEdit ==
    /\ ops < MaxCalls
    /\ \E opt \in BoolOptions :
          call' = [op |-> "validate_edit",
                   optimize_prompt |-> opt,
                   request |-> EditImageRequest(SrcPng, PromptMakeRed, FmtPng,
                                   "high", opt)]
    /\ ops' = ops + 1
    /\ UNCHANGED <<output_files, ledger, cache_files, cache_index,
                   translation_cache, now, ticks>>

\* validate_blend_request
ValidateBlend ==
    /\ ops < MaxCalls
    /\ \E in \in (BoolOptions \X {PyBool(TRUE), PyStr(<<"2">>)})
                   \cup ({PyBool(TRUE)} \X BoolOptions) :
          call' = [op |-> "validate_blend",
                   maintain_consistency |-> in[1],
                   optimize_prompt |-> in[2],
                   request |-> BlendImagesRequest(<<SrcPng, SrcPng>>,
                                   PromptMix, FmtPng, "high", in[1], in[2])]
    /\ ops' = ops + 1
    /\ UNCHANGED <<output_files, ledger, cache_files, cache_index,
                   translation_cache, now, ticks>>

RequestNext == ValidateGeneration \/ ValidateEdit \/ ValidateBlend

RequestSpec == Init /\ [][RequestNext]_vars

\* tools: batches

\* batches started in a behaviour
MaxBatches == 1
\* requests of a batch
MaxRequests == 3
\* settings.request_timeout, in seconds
request_timeout == 300

\* answers of the provider to a batch request
BatchProviders ==
    {ProviderOk, Provider("result", None, FALSE, <<>>),
     Provider("result", None, TRUE, <<ItemJpg>>)}

\* asyncio.Semaphore(value): a negative value raises ValueError
Semaphore(value) ==
    [raised |-> value < 0, value |-> value, waiters |-> <<>>]

\* Semaphore.release: the permit goes to the first waiter when there is one
semaphore_release(c) ==
    IF c.semaphore.waiters = <<>>
    THEN [c EXCEPT !.semaphore.value = @ + 1]
    ELSE [c EXCEPT !.semaphore.waiters = Tail(@),
                   !.tasks[Head(c.semaphore.waiters)].state = "woken"]

\* generate_with_semaphore, once it holds a permit: nanobanana_generate
\* runs up to its await of the provider call; a request that ends before
\* that call returns at once and releases its permit
task_run(c, i, r, t) ==
    IF r.provider_called
    THEN [c EXCEPT !.tasks[i].state = "calling", !.tasks[i].started = t]
    ELSE semaphore_release(
             [c EXCEPT !.tasks[i].state = "done",
                       !.tasks[i].result = r.response])

\* the requests of a batch: every list of one to MaxRequests prompts
BatchRequests ==
    UNION {[1..n -> {PromptCat, PromptShort}] : n \in 1..MaxRequests}

\* values of settings.max_concurrent_requests
ConcurrencyLimits == {-1, 1, 2}

\* nanobanana_generate(**request_data) of a batch request
batch_generate(d, cache, t, prompt, provider) ==
    tool_generate(d, cache, t, TRUE, prompt, None, "high", FmtPng, PyInt(1),
                  <<>>, PyBool(FALSE), provider, "ok", TRUE)

\* batch_generate_images, up to asyncio.gather: the settings are read, the
\* semaphore is built and one task is created for each request; an
\* exception of these steps ends the batch with one error response
BatchStart ==
    /\ ops < MaxBatches
    /\ \E requests \in BatchRequests, limit \in ConcurrencyLimits,
          settings_ok \in BOOLEAN :
          call' =
              IF ~settings_ok \/ Semaphore(limit).raised
              THEN [op |-> "batch", requests |-> requests, limit |-> limit,
                    semaphore |-> Semaphore(0), tasks |-> <<>>,
                    records_before |-> Len(ledger.images),
                    returned |-> TRUE,
                    results |->
                        <<create_error_response("Batch generation failed",
                                                "BATCH_PROCESSING_ERROR")>>]
              ELSE [op |-> "batch", requests |-> requests, limit |-> limit,
                    semaphore |-> Semaphore(limit),
                    tasks |-> [i \in 1..Len(requests) |->
                                  [state |-> "created", started |-> 0,
                                   result |-> <<>>]],
                    records_before |-> Len(ledger.images),
                    returned |-> FALSE, results |-> <<>>]
    /\ ops' = ops + 1
    /\ UNCHANGED <<output_files, ledger, cache_files, cache_index,
                   translation_cache, now, ticks>>

\* a task created by gather runs for the first time (the tasks start in
\* the order of the requests): `async with semaphore` takes a permit or
\* queues the task
TaskEnter ==
    /\ call.op = "batch"
    /\ ~call.returned
    /\ \E i \in DOMAIN call.tasks :
          /\ call.tasks[i].state = "created"
          /\ \A j \in 1..(i - 1) : call.tasks[j].state # "created"
          /\ call' =
                IF call.semaphore.value > 0 /\ call.semaphore.waiters = <<>>
                THEN task_run([call EXCEPT !.semaphore.value = @ - 1], i,
                              batch_generate(Disk, translation_cache, now,
                                             call.requests[i], ProviderOk),
                              now)
                ELSE [call EXCEPT !.tasks[i].state = "waiting",
                                  !.semaphore.waiters = Append(@, i)]
    /\ UNCHANGED <<output_files, ledger, cache_files, cache_index,
                   translation_cache, now, ticks, ops>>

\* a queued task that was handed a permit runs
TaskResume ==
    /\ call.op = "batch"
    /\ ~call.returned
    /\ \E i \in DOMAIN call.tasks :
          /\ call.tasks[i].state = "woken"
          /\ call' = task_run(call, i,
                              batch_generate(Disk, translation_cache, now,
                                             call.requests[i], ProviderOk),
                              now)
    /\ UNCHANGED <<output_files, ledger, cache_files, cache_index,
                   translation_cache, now, ticks, ops>>

\* the provider call of a task returns, whenever the provider answers: no
\* timer runs beside `await asyncio.to_thread(...)`; nanobanana_generate
\* finishes and the permit is released
ProviderAnswers ==
    /\ call.op = "batch"
    /\ ~call.returned
    /\ \E i \in DOMAIN call.tasks, provider \in BatchProviders :
          /\ call.tasks[i].state = "calling"
          /\ LET Finish(r) ==
                     /\ SetDisk(r.disk)
                     /\ translation_cache' = r.cache
                     /\ call' = semaphore_release(
                                    [call EXCEPT !.tasks[i].state = "done",
                                                 !.tasks[i].result = r.response])
             IN  Finish(batch_generate(Disk, translation_cache, now,
                                       call.requests[i], provider))
    /\ UNCHANGED <<now, ticks, ops>>

\* gather returns when every task is done: the results in task order
BatchReturn ==
    /\ call.op = "batch"
    /\ ~call.returned
    /\ \A i \in DOMAIN call.tasks : call.tasks[i].state = "done"
    /\ call' = [call EXCEPT !.returned = TRUE,
                            !.results = [i \in DOMAIN call.tasks |->
                                            call.tasks[i].result]]
    /\ UNCHANGED <<output_files, ledger, cache_files, cache_index,
                   translation_cache, now, ticks, ops>>

BatchNext ==
    BatchStart \/ TaskEnter \/ TaskResume \/ ProviderAnswers \/ BatchReturn
    \/ Tick

BatchSpec == Init /\ [][BatchNext]_vars

\* what the collectors of a status call find
StatusProbes ==
    [api : {"up", "down", "no_client"}, settings_ok : BOOLEAN,
     uptime : {10}, used_percent : {-1, 90, 91}, percent_used : {-1, 85, 86}]

Collectors == {"api", "server", "performance", "storage", "system", "history"}

\* the sets of collectors whose task ends with an exception
RaisedSets ==
    {{}, Collectors, {"api", "storage"}} \cup {{c} : c \in Collectors}

\* the probes with the disk and the memory at their thresholds
QuietProbes ==
    {q \in StatusProbes : q.settings_ok /\ q.used_percent = 90
                          /\ q.percent_used = 85}

StatusCall(detailed, include_history, reset_stats, probe, raising) ==
    [detailed |-> detailed, include_history |-> include_history,
     reset_stats |-> reset_stats, probe |-> probe,
     raised |-> [c \in Collectors |-> c \in raising]]

\* the status calls explored: detailed calls over every probe with no task
\* raising and over every set of raising tasks with quiet probes, and
\* short calls over quiet probes
StatusInputs ==
    {StatusCall(TRUE, h, r, p, {}) :
        h \in BOOLEAN, r \in BOOLEAN,
        p \in {q \in StatusProbes : q.settings_ok \/ q.api = "up"}}
    \cup {StatusCall(TRUE, h, FALSE, p, x) :
            h \in BOOLEAN, p \in QuietProbes, x \in RaisedSets \ {{}}}
    \cup {StatusCall(FALSE, h, r, p, x) :
            h \in BOOLEAN, r \in BOOLEAN, p \in QuietProbes,
            x \in {{}, {"system"}, Collectors}}

\* nanobanana_status
Status ==
    /\ ops < MaxCalls
    /\ \E in \in StatusInputs :
          call' = [op |-> "status",
                   detailed |-> in.detailed,
                   include_history |-> in.include_history,
                   reset_stats |-> in.reset_stats,
                   probe |-> in.probe,
                   raised |-> in.raised,
                   ledger |-> ledger,
                   response |->
                       server_tool(
                           [raised |-> FALSE,
                            response |->
                                tool_status(ledger, now, in.detailed,
                                    in.include_history, in.reset_stats,
                                    in.probe, in.raised)],
                           "STATUS_ERROR")]
    /\ ops' = ops + 1
    /\ UNCHANGED <<output_files, ledger, cache_files, cache_index,
                   translation_cache, now, ticks>>

\* the status tool over a ledger the file manager has written
StatusNext == Save \/ Status

StatusSpec == Init /\ [][StatusNext]_vars

Next == Generate \/ Edit \/ Blend \/ Status

Spec == Init /\ [][Next]_vars

----------------------------------------------------------------------------
(* Properties *)

ToolOps == {"generate", "edit", "blend"}

Failed(code) ==
    /\ call.response.success = FALSE
    /\ call.response.error.code = code

\* C1: for generate, edit and blend, a prompt that contains a deny-listed
\* term (after translation, in any letter case) ends with success = false
\* and without a call of the provider, whatever the other arguments are.
C1_UnsafePromptRejected ==
    (/\ call.op \in ToolOps
     /\ check_safety(translate_if_needed(call.prompt, <<>>).text))
        => (call.response.success = FALSE /\ ~call.provider_called)

\* the response is a mapping with a boolean success and, when success is
\* false, an error object with a code and a message
Envelope(r) ==
    /\ "success" \in DOMAIN r
    /\ r.success \in BOOLEAN
    /\ ~r.success =>
          /\ "error" \in DOMAIN r
          /\ {"code", "message"} \subseteq DOMAIN r.error

\* C2: every call of generate, edit, blend or status, on every path,
\* returns a mapping with a boolean success field and, when success is
\* false, an error object carrying a code and a message; no exception
\* reaches the caller.
C2_UniformEnvelope ==
    call.op \in ToolOps \cup {"status"} => Envelope(call.response)

\* a call whose tool raised and whose wrapper built the error response
C2_Witness ==
    /\ call.op = "edit"
    /\ Failed("EDIT_ERROR")
    /\ Envelope(call.response)

\* C3: no operation reports success without a persisted result: a
\* successful generate response lists at least one image, a successful
\* edit or blend response carries its image record, and the file of every
\* reported image is on disk.
C3_SuccessHasPersistedResult ==
    /\ (call.op = "generate" /\ call.response.success) =>
          /\ call.response.images # <<>>
          /\ \A i \in DOMAIN call.response.images :
                call.response.images[i].filepath \in DOMAIN output_files
    /\ (call.op = "edit" /\ call.response.success) =>
          /\ "edited_image" \in DOMAIN call.response
          /\ call.response.edited_image.filepath \in DOMAIN output_files
    /\ (call.op = "blend" /\ call.response.success) =>
          /\ "blended_image" \in DOMAIN call.response
          /\ call.response.blended_image.filepath \in DOMAIN output_files

\* the provider answered with images of which none could be saved, and
\* the result is a failure envelope
C3_Witness ==
    /\ call.op = "generate"
    /\ call.provider_called
    /\ call.trace = <<>>
    /\ Failed("SAVE_ERROR")

\* C4: blend called with fewer than 2 or more than 4 image paths returns
\* a failure envelope with the validation error code, and the provider is
\* not called for that request.
C4_BlendCardinality ==
    (call.op = "blend" /\ (call.n_images < 2 \/ call.n_images > 4))
        => (Failed("VALIDATION_ERROR") /\ ~call.provider_called)

C4_Witness ==
    /\ call.op = "blend"
    /\ call.n_images = 5
    /\ Failed("VALIDATION_ERROR")
    /\ ~call.provider_called

\* C5: after a successful save_image_with_metadata of operation type X on
\* a ledger holding no X record, get_image_history(X) returns exactly one
\* record, whose file_size is the length of the image data and whose hash
\* is the SHA-256 digest of the image data, for every metadata dictionary
\* of the caller.
C5_LedgerRoundTrip ==
    (call.op = "save" /\ ~call.raised /\ call.records_before = 0) =>
        LET history == get_image_history(ledger, PyNone, call.operation_type)
        IN  /\ Len(history) = 1
            /\ history[1]["file_size"] = Len(call.image_data)
            /\ history[1]["hash"] = Sha256(call.image_data)

\* C6: after a generate call that returns success, every image record of
\* the response is returned by the next history("generated") query, with
\* operation type "generated" and the format reported in the response.
C6_GeneratedInHistory ==
    (call.op = "generate" /\ call.response.success) =>
        LET history == get_image_history(ledger, PyNone, "generated")
        IN  \A i \in DOMAIN call.response.images :
               \E j \in DOMAIN history :
                  /\ history[j]["filepath"] = call.response.images[i].filepath
                  /\ history[j]["operation_type"] = "generated"
                  /\ history[j]["format"] = call.response.images[i].format

HasRecord(path) ==
    /\ ledger.state = "ok"
    /\ \E i \in DOMAIN ledger.images : ledger.images[i]["filepath"] = path

\* C7: save_image_with_metadata is all-or-nothing for the image file and
\* its ledger record: when it reports success the file is on disk and the
\* ledger holds its record; when it raises, neither the file nor a record
\* was added.
C7_AllOrNothing ==
    call.op = "save" =>
        /\ ~call.raised =>
              /\ call.path \in DOMAIN output_files
              /\ HasRecord(call.path)
        /\ call.raised =>
              /\ call.path \in DOMAIN output_files => call.file_existed
              /\ Len(get_image_history(ledger, PyNone, call.operation_type))
                     = call.records_before

\* the files a manage_cache run deleted, and their age at the run
Deleted == call.expired \cup call.old_files

Age(n) == call.at - call.cache_before[n].mtime

\* C8, as stated: manage_cache never deletes a file whose age is below the
\* expiry window, in any run, including runs where the cache is over the
\* size cap.
C8_NeverDeletesYoung ==
    call.op = "manage_cache" =>
        \A n \in Deleted : Age(n) >= cache_expiry * HourSeconds

\* C8, amended: in a run where the cache left by the expiry phase is within
\* the size cap, manage_cache deletes no file whose age is below the expiry
\* window.
C8_NeverDeletesYoungUnderCap ==
    (call.op = "manage_cache" /\ call.current_size <= max_cache_size * MB)
        => \A n \in Deleted : Age(n) >= cache_expiry * HourSeconds

\* a run under the cap that deleted an expired file and kept a young one
C8_Witness ==
    /\ call.op = "manage_cache"
    /\ call.current_size <= max_cache_size * MB
    /\ Deleted # {}
    /\ \E n \in DOMAIN call.cache_before \ Deleted :
          n # IndexFile /\ Age(n) < cache_expiry * HourSeconds

IsPrefix(a, b) == Len(a) <= Len(b) /\ SubSeq(b, 1, Len(a)) = a

\* C9: across save, history, search and manage_cache the ledger records
\* are only ever appended, and a manage_cache run leaves the ledger and
\* every file of the output area unchanged.
C9_LedgerAppendOnly ==
    [][/\ IsPrefix(ledger.images, ledger'.images)
       /\ (ops' # ops /\ call'.op = "manage_cache") =>
              (ledger' = ledger /\ output_files' = output_files)]_vars

\* C10: the format of the image that generate, edit or blend persists is
\* the one of the provider's MIME type when there is one, else the one the
\* byte signature of the decoded data identifies, else the requested one.
C10_FormatPrecedence ==
    call.op \in ToolOps =>
        \A i \in DOMAIN call.trace :
           call.trace[i].format =
               IF call.trace[i].mime # <<>>
               THEN FormatOfMime(call.trace[i].mime)
               ELSE IF call.trace[i].sniffed # <<>>
               THEN call.trace[i].sniffed
               ELSE call.trace[i].requested

\* the slot of each collector in the status response
StatusSlot(c) ==
    CASE c = "api" -> "api_status"
      [] c = "server" -> "uptime"
      [] c = "performance" -> "performance_stats"
      [] c = "storage" -> "storage_stats"
      [] c = "system" -> "system_info"
      [] c = "history" -> "recent_history"

\* what each collector of the last status call returns when its task does
\* not raise
StatusCollected(c) ==
    CASE c = "api" -> collect_api_status(call.probe.api)
      [] c = "server" ->
            DictGet(collect_server_info(call.probe.settings_ok,
                                        call.probe.uptime), "uptime", 0)
      [] c = "performance" -> collect_performance_stats(call.ledger)
      [] c = "storage" ->
            collect_storage_stats(call.ledger, call.probe.used_percent)
      [] c = "system" ->
            collect_system_info(call.detailed, call.probe.percent_used)
      [] c = "history" -> collect_recent_history(call.ledger)

\* C11: the status operation always succeeds: for every combination of
\* detailed, include_history and reset_stats and every pattern of collector
\* failures the response has success = true and an overall status field,
\* and when the health check of the provider fails the response reports the
\* API as not accessible and the overall status "unhealthy".
C11_StatusAlwaysSucceeds ==
    call.op = "status" =>
        /\ call.response.success = TRUE
        /\ "overall_status" \in DOMAIN call.response
        /\ (call.probe.api = "down" /\ ~call.raised["api"]) =>
              /\ call.response.overall_status = "unhealthy"
              /\ call.response.api_status.api_accessible = FALSE

\* C12: the collectors of a status call are isolated from each other: for
\* every set of collectors that raise, the response carries the result of
\* each collector that did not raise, and an error descriptor in the slot
\* of each collector that raised.
C12_CollectorsIsolated ==
    (call.op = "status" /\ \E r \in Collectors : call.raised[r]) =>
        \A c \in Collectors \ (IF call.include_history THEN {} ELSE {"history"}) :
            /\ StatusSlot(c) \in DOMAIN call.response
            /\ IF call.raised[c]
               THEN c # "server" => "error" \in DOMAIN call.response[StatusSlot(c)]
               ELSE call.response[StatusSlot(c)] = StatusCollected(c)

Executing == {i \in DOMAIN call.tasks : call.tasks[i].state \in {"calling", "woken"}}

\* C14: in a batch over N requests with concurrency limit L, at most L
\* requests execute at any time, a request beyond the limit waits and does
\* not fail, and the batch returns exactly N results, the i-th result
\* being the answer to the i-th request.
C14_BatchBounded ==
    call.op = "batch" =>
        /\ call.tasks # <<>> => Cardinality(Executing) <= call.limit
        /\ \A i \in DOMAIN call.tasks :
              call.tasks[i].state = "waiting" => call.tasks[i].result = <<>>
        /\ call.returned =>
              /\ Len(call.results) = Len(call.requests)
              /\ \A i \in DOMAIN call.results :
                    call.results[i].success =>
                        call.results[i].original_prompt = call.requests[i]

\* C15: the provider call of a request is bounded by the request timeout:
\* no call is still in flight when more than request_timeout seconds have
\* passed since it was started.
C15_ProviderCallBounded ==
    call.op = "batch" =>
        \A i \in DOMAIN call.tasks :
            call.tasks[i].state = "calling" =>
                now - call.tasks[i].started <= request_timeout

\* option values the specification reads as true, as false, and rejects
ExpectTrue ==
    {PyNone, PyBool(TRUE), PyInt(1), PyInt(2),
     PyStr(<<"t","r","u","e">>), PyStr(<<"T","R","U","E">>),
     PyStr(<<" ","Y","e","s"," ">>), PyStr(<<"o","n">>), PyStr(<<"1">>)}
ExpectFalse ==
    {PyBool(FALSE), PyInt(0), PyFloat(0),
     PyStr(<<"f","a","l","s","e">>), PyStr(<<"0">>), PyStr(<<"N","o">>),
     PyStr(<<"O","F","F"," ">>)}
ExpectError == {PyStr(<<"m","a","y","b","e">>), PyStr(<<"2">>), PyStr(<<>>)}

ValidateOps == {"validate_generation", "validate_edit", "validate_blend"}

\* the boolean options of the request type the last call validated
BoolFields ==
    IF call.op = "validate_blend"
    THEN {"maintain_consistency", "optimize_prompt"}
    ELSE {"optimize_prompt"}

\* C16: boolean coercion of optimize_prompt and maintain_consistency, the
\* same in the generate, edit and blend request types: None is true; a
\* text that is, trimmed and in lower case, one of true, 1, yes, on is true
\* and one of false, 0, no, off is false; any other text is a validation
\* error; a boolean is itself; a number is true exactly when it is not 0.
C16_BooleanCoercion ==
    (/\ call.op \in ValidateOps
     /\ call.op = "validate_generation" => call.candidate_count = PyInt(1)
     /\ \A f \in BoolFields : call[f] \in ExpectTrue \cup ExpectFalse \cup ExpectError)
    => /\ call.request.ok = (\A f \in BoolFields : call[f] \notin ExpectError)
       /\ call.request.ok =>
             \A f \in BoolFields : call.request[f] = (call[f] \in ExpectTrue)

\* a blend request whose two options are texts with blanks and capitals
C16_Witness ==
    /\ call.op = "validate_blend"
    /\ call.maintain_consistency = PyStr(<<"O","F","F"," ">>)
    /\ call.optimize_prompt = PyBool(TRUE)
    /\ call.request.ok
    /\ ~call.request.maintain_consistency
    /\ call.request.optimize_prompt

\* the candidate_count values the specification reads as the count n
CountsGiving(n) ==
    CASE n = 1 -> {PyNone, PyInt(1)}
      [] n = 3 -> {PyInt(3), PyStr(<<"3">>), PyStr(<<" ","3"," ">>)}
      [] n = 4 -> {PyInt(4)}

\* C17: integer coercion of candidate_count: an integer is itself, a text
\* that is an integer between blanks is that integer ("3" and 3 give the
\* same request), None is the default 1, and a text that is not an integer
\* ("abc", "1.5", "") is a validation error.
C17_IntegerCoercion ==
    (call.op = "validate_generation" /\ call.optimize_prompt \in ExpectTrue \cup ExpectFalse)
    => /\ call.candidate_count \in {PyStr(<<"a","b","c">>), PyStr(<<"1",".","5">>), PyStr(<<>>)}
             => ~call.request.ok
       /\ \A n \in {1, 3, 4} :
             call.candidate_count \in CountsGiving(n) =>
                 /\ call.request.ok
                 /\ call.request.candidate_count = n

\* a request whose count is the text " 3 "
C17_Witness ==
    /\ call.op = "validate_generation"
    /\ call.candidate_count = PyStr(<<" ","3"," ">>)
    /\ call.request.ok
    /\ call.request.candidate_count = 3

\* candidate_count values that are integers outside 1..MAX_BATCH_SIZE
OutOfRangeCounts ==
    {PyInt(0), PyInt(0 - 1), PyInt(5), PyStr(<<"0">>), PyStr(<<"7">>),
     PyStr(<<"-","2">>)}

\* C18: a generate call whose candidate_count is an integer outside 1..4,
\* 0 and negative values included, fails with VALIDATION_ERROR and the
\* provider is not called; the count is not replaced by a default.
C18_CountOutOfRangeRejected ==
    (call.op = "generate" /\ call.options.candidate_count \in OutOfRangeCounts)
    => /\ Failed("VALIDATION_ERROR")
       /\ ~call.provider_called

\* C19: optimize_prompt is deterministic and has no hidden state that a
\* caller can observe: a call returns what a call with the same arguments
\* returns on a new optimizer, whatever prompts were optimized before it
\* and whatever the translation cache holds.
C19_OptimizerDeterministic ==
    call.op = "optimize" =>
        LET Fresh(o) ==
                /\ call.raised = o.raised
                /\ call.code = o.code
                /\ call.text = o.text
        IN  Fresh(optimize_prompt(call.args.prompt, "generation",
                      call.args.aspect_ratio,
                      call.args.style, call.args.quality_level,
                      call.args.additional_keywords, <<>>))

\* a call that found its prompt in the translation cache
C19_Witness ==
    /\ call.op = "optimize"
    /\ call.cached
    /\ ~call.raised
    /\ call.args.prompt = PromptKorean

\* the keyword clauses the optimizer adds for a style, a quality tier and
\* an aspect ratio, in lower case
KeywordClauses(args) ==
    (IF args.style # None
     THEN {SplitOn(StrLower(STYLE_PRESETS[args.style]), CommaSpace)[i] :
              i \in 1..Len(SplitOn(StrLower(STYLE_PRESETS[args.style]), CommaSpace))}
     ELSE {})
    \cup {<<"h","i","g","h"," ","q","u","a","l","i","t","y">>,
          <<"d","e","t","a","i","l","e","d">>,
          <<"p","r","o","f","e","s","s","i","o","n","a","l">>,
          <<"g","o","o","d"," ","q","u","a","l","i","t","y">>,
          <<"c","l","e","a","r">>}
    \cup (IF args.aspect_ratio # None
          THEN {ASPECT_RATIOS[args.aspect_ratio] \o AspectRatioSuffix}
          ELSE {})

\* how many of the comma-separated clauses of text are the clause
ClauseCount(text, clause) ==
    Cardinality({i \in 1..Len(SplitOn(text, CommaSpace)) :
                    StrLower(SplitOn(text, CommaSpace)[i]) = clause})

\* C20: optimize_prompt run on its own output with the same category,
\* style, quality and aspect ratio does not duplicate a quality, style or
\* aspect-ratio keyword clause: every such clause of the first output is in
\* the second output exactly once, and no clause is there twice.
C20_NoDuplicateClauses ==
    (call.op = "reoptimize" /\ ~call.raised) =>
        \A clause \in KeywordClauses(call.args) :
            /\ ClauseCount(call.text, clause) <= 1
            /\ ClauseCount(call.first, clause) >= 1 =>
                  ClauseCount(call.text, clause) = 1

\* a second pass at the medium tier, whose clauses hold no quality keyword
\* the optimizer looks for
C20_Witness ==
    /\ call.op = "reoptimize"
    /\ ~call.raised
    /\ call.args.quality_level = "medium"
    /\ call.args.style = "sketch"
    /\ call.args.aspect_ratio # None
    /\ ClauseCount(call.first, <<"g","o","o","d"," ","q","u","a","l","i","t","y">>) = 1
    /\ ClauseCount(call.text, <<"g","o","o","d"," ","q","u","a","l","i","t","y">>) = 1

\* C21: get_image_history(limit, operation_type) returns only records of
\* the requested operation type (all types when none is given), ordered
\* newest-first by created_at, and at most limit records whenever a limit
\* is given.
C21_HistoryFilteredOrderedLimited ==
    call.op = "history" =>
        /\ call.operation_type # None =>
               \A i \in 1..Len(call.result) :
                   call.result[i]["operation_type"] = call.operation_type
        /\ \A i, j \in 1..Len(call.result) :
               i < j => CreatedAt(call.result[i]) >= CreatedAt(call.result[j])
        /\ call.limit # PyNone => Len(call.result) <= call.limit.val

\* C22: a generate, edit or blend request that fails request validation
\* has no side effect: the provider is not called and nothing is sent to
\* it, no file is written, the ledger and the cache are unchanged, and the
\* one call makes one attempt.
C22_ValidationFailureNoSideEffect ==
    [][(/\ call'.op \in ToolOps
        /\ call'.response.success = FALSE
        /\ call'.response.error.code = "VALIDATION_ERROR")
       => /\ ~call'.provider_called
          /\ call'.sent = <<>>
          /\ call'.trace = <<>>
          /\ output_files' = output_files
          /\ ledger' = ledger
          /\ cache_files' = cache_files
          /\ cache_index' = cache_index
          /\ translation_cache' = translation_cache
          /\ ops' = ops + 1]_vars

\* a request rejected by validation after an earlier call wrote an image
C22_Witness ==
    /\ call.op \in {"edit", "blend"}
    /\ Failed("VALIDATION_ERROR")
    /\ output_files # <<>>
    /\ ops = 2

\* C23: the string returned by optimize_prompt never exceeds the maximum
\* prompt length: an assembled prompt that is longer is returned truncated
\* at a clause boundary at or before the limit.
C23_OptimizedWithinMaxLength ==
    (call.op \in {"optimize", "reoptimize"} /\ ~call.raised) =>
        Len(call.text) <= MAX_PROMPT_LENGTH

\* a candidate whose payload is missing or cannot be decoded
BadCandidate(item) ==
    generate_decode(item).skip \/ generate_decode(item).raised

\* C24: in a generate call that returns several candidates, a candidate
\* whose payload is missing or cannot be decoded is skipped and the other
\* candidates are still processed and saved: the call does not fail when
\* another candidate was saved.
C24_BadCandidateSkipped ==
    (/\ call.op = "generate"
     /\ "candidates" \in DOMAIN call.options
     /\ Len(call.options.candidates) > 1
     /\ \E i \in 1..Len(call.options.candidates) :
            BadCandidate(call.options.candidates[i])
     /\ \E i \in 1..Len(call.trace) :
            /\ call.trace[i].filepath \in DOMAIN output_files
            /\ call.trace[i].format \in ImageFormatValues)
    => call.response.success = TRUE

\* the subtype of a MIME type: the text after the last '/', in lower case,
\* without the parameters that follow ';', with jpg written jpeg
MimeSubtype(mime) ==
    LET Named(sub) == IF sub = FmtJpg THEN FmtJpeg ELSE sub
        Cut(sub) == Named(Strip(SplitOn(sub, <<";">>)[1]))
    IN  Cut(StrLower(SplitOn(mime, <<"/">>)[Len(SplitOn(mime, <<"/">>))]))

\* C25: the format derived from a declared MIME type is the subtype after
\* '/', lower-cased, with any parameters after ';' removed and jpg
\* normalized to jpeg: 'image/jpeg; charset=utf-8' gives jpeg, 'IMAGE/PNG'
\* gives png and 'image/jpg' gives jpeg.
C25_FormatOfDeclaredMime ==
    call.op \in ToolOps =>
        \A i \in 1..Len(call.trace) :
            call.trace[i].mime # <<>> =>
                call.trace[i].format = MimeSubtype(call.trace[i].mime)

\* C26: size trigger of manage_cache: when the cache still exceeds the cap
\* after the expired files are removed, files are deleted oldest-first by
\* modification time, and when manage_cache returns (every deletion of the
\* model succeeds) the total size of the files in the cache area is at
\* most the configured cap.  The runs looked at are those where no two
\* files have the same modification time, so that the oldest is one file.
C26_SizeTriggerUnderCap ==
    [][(/\ call'.op = "manage_cache"
        /\ ops' = ops + 1
        /\ call'.current_size > max_cache_size * MB
        /\ \A n, m \in DOMAIN cache_files :
               n # m => cache_files[n].mtime # cache_files[m].mtime)
       => /\ \A n \in call'.old_files :
                 \A m \in DOMAIN cache_files \ (call'.expired \cup call'.old_files) :
                     cache_files[n].mtime <= cache_files[m].mtime
          /\ TotalSize(cache_files') <= max_cache_size * MB]_vars

\* the ledger appends of the tasks of a batch: the images of the results
\* that were saved through the file manager (they carry the content hash)
RECURSIVE LedgerSaves(_)
LedgerSaves(tasks) ==
    IF tasks = <<>> THEN 0
    ELSE LET result == Head(tasks).result
             saved == IF "images" \in DOMAIN result
                      THEN Cardinality({i \in 1..Len(result.images) :
                                           result.images[i].hash # <<>>})
                      ELSE 0
         IN  saved + LedgerSaves(Tail(tasks))

C28_FailureLeavesNothing ==
    [][(/\ call'.op \in ToolOps
        /\ ops' = ops + 1
        /\ call'.response.success = FALSE)
       => /\ output_files' = output_files
          /\ ledger' = ledger]_vars

\* C29: no two ledger records refer to the same file path and a successful
\* save never overwrites an existing output file, also for two saves with
\* the same operation type and the same prompt within the same second.
C29_DistinctPaths ==
    /\ \A i, j \in 1..Len(ledger.images) :
           i # j => ledger.images[i]["filepath"] # ledger.images[j]["filepath"]
    /\ (call.op = "save" /\ ~call.raised) => ~call.file_existed

\* C30: the string returned by optimize_prompt never contains a
\* deny-listed term (case-insensitive substring), whatever the style preset
\* and the additional keywords of the caller are.
C30_OptimizedHasNoDeniedTerm ==
    (call.op \in {"optimize", "reoptimize"} /\ ~call.raised) =>
        \A i \in 1..Len(PROHIBITED_KEYWORDS) :
            ~Contains(StrLower(call.text), PROHIBITED_KEYWORDS[i])

====
